---------------------------- MODULE ZplLint_proofs ----------------------------
(***************************************************************************)
(* Theorems about ZplLint, for any text: the count of the statements, and  *)
(* what the warnings claim.  Each rule, class and entity of a rule set     *)
(* comes from a statement of its own that was kept, and each statement has *)
(* a line of its own but for those that are counted apart; so there are as *)
(* many lines too many as statements that are lost.                        *)
(***************************************************************************)
EXTENDS ZplLint, ZplHierarchy_proofs

\* Two sets with nothing in common.
LEMMA Apart ==
    ASSUME NEW S, NEW T, IsFiniteSet(S), IsFiniteSet(T), S \cap T = {}
    PROVE  /\ IsFiniteSet(S \cup T)
           /\ Cardinality(S \cup T) = Cardinality(S) + Cardinality(T)
           /\ Cardinality(S) \in Nat /\ Cardinality(T) \in Nat
<1>1. /\ Cardinality(S) \in Nat /\ Cardinality(T) \in Nat
      /\ Cardinality({}) = 0
  BY FS_CardinalityType, FS_EmptySet
<1>2. /\ IsFiniteSet(S \cup T)
      /\ Cardinality(S \cup T) = Cardinality(S) + Cardinality(T) - Cardinality(S \cap T)
  BY FS_Union
<1>3. Cardinality(S \cap T) = 0
  BY <1>1, Zenon
<1> QED
  BY <1>1, <1>2, <1>3

-----------------------------------------------------------------------------
\* The names of the classes and the entities are those of statements.
LEMMA NamesOfStatements ==
    ASSUME CompiledText, Ok
    PROVE  LET defines == Kept(text, {"define"})
               declares == Kept(text, {"declare"})
           IN /\ DOMAIN crs.rules = DOMAIN Kept(text, {"allow", "never"})
              /\ DOMAIN crs.defs.fixed \subseteq {Lower(defines[i].name) : i \in DOMAIN defines}
              /\ DOMAIN crs.defs.entities = {Lower(declares[i].name) : i \in DOMAIN declares}
<1> DEFINE defines == Kept(text, {"define"})
           declares == Kept(text, {"declare"})
           rules == Kept(text, {"allow", "never"})
<1>1. crs = [defs |-> Definitions(defines, declares), rules |-> FoldRules(rules)]
  BY CompiledForm DEF CompiledText, Ok
<1> HIDE DEF defines, declares, rules
<1>2. DOMAIN crs.rules = DOMAIN rules
  BY <1>1, FoldedRule
<1>3. DOMAIN crs.defs.fixed = Classes(defines) \ Builtin
  BY <1>1 DEF Definitions, Fixed
<1>4. DOMAIN crs.defs.entities = {Lower(declares[i].name) : i \in DOMAIN declares}
  BY <1>1 DEF Definitions, Entities
<1>5. Classes(defines) \ Builtin \subseteq {Lower(defines[i].name) : i \in DOMAIN defines}
  BY DEF Classes, Names
<1> QED
  BY <1>2, <1>3, <1>4, <1>5 DEF defines, declares, rules

\* The statements that are lost, those that have no line of their own, and
\* where the statements that are kept come from.
LostStatements == {i \in DOMAIN text : Lost(text, i)}
Lineless == {i \in DOMAIN text : text[i].lines = 0}

LEMMA Places ==
    ASSUME CompiledText
    PROVE  /\ DOMAIN text = 1..Len(text) /\ Len(text) \in Nat
           /\ IsFiniteSet(DOMAIN text) /\ Cardinality(DOMAIN text) = Len(text)
<1> DEFINE n == Len(text)
<1>1. DOMAIN text = 1..n /\ n \in Nat
  BY DEF CompiledText
<1> HIDE DEF n
<1>2. /\ IsFiniteSet(1..n)
      /\ Cardinality(1..n) = IF 1 > n THEN 0 ELSE n - 1 + 1
  BY <1>1, FS_Interval
<1>3. Cardinality(1..n) = n
  BY <1>1, <1>2
<1> QED
  BY <1>1, <1>2, <1>3 DEF n

\* The part of a set of places that has no property, by the part that has.
LEMMA Rest ==
    ASSUME CompiledText, NEW S, S \subseteq DOMAIN text
    PROVE  /\ IsFiniteSet(S) /\ Cardinality(S) \in Nat
           /\ IsFiniteSet(DOMAIN text \ S)
           /\ Cardinality(DOMAIN text \ S) = Len(text) - Cardinality(S)
<1> DEFINE D == DOMAIN text
<1>1. IsFiniteSet(D) /\ Cardinality(D) = Len(text) /\ Len(text) \in Nat
  BY Places
<1> HIDE DEF D
<1>2. S \subseteq D
  BY DEF D
<1>3. IsFiniteSet(S) /\ Cardinality(S) \in Nat
  BY <1>1, <1>2, FS_Subset, FS_CardinalityType
<1>4. D \cap S = S
  BY <1>2
<1>5. /\ IsFiniteSet(D \ S)
      /\ Cardinality(D \ S) = Cardinality(D) - Cardinality(D \cap S)
  BY <1>1, <1>3, FS_Difference
<1> QED
  BY <1>1, <1>3, <1>4, <1>5 DEF D

\* Each statement but those has a line.
LEMMA LinesEnough ==
    ASSUME CompiledText
    PROVE  /\ Cardinality(StatementLines) \in Nat
           /\ Len(text) - Cardinality(Lineless) <= Cardinality(StatementLines)
<1> DEFINE D == DOMAIN text
           lined == D \ Lineless
           f == [p \in StatementLines |-> p[1]]
<1>1. /\ IsFiniteSet(D) /\ IsFiniteSet(lined)
      /\ Cardinality(lined) = Len(text) - Cardinality(Lineless)
  BY Places, Rest DEF Lineless
<1>2. IsFiniteSet(StatementLines) /\ Cardinality(StatementLines) \in Nat
  <2>1. IsFiniteSet(1..2)
    <3>1. \A a, b \in Int : IsFiniteSet(a..b)
      BY FS_Interval
    <3>2. 1 \in Int /\ 2 \in Int
      OBVIOUS
    <3> QED
      BY <3>1, <3>2, Zenon
  <2>2. IsFiniteSet(D \X (1..2))
    <3> HIDE DEF D
    <3> QED
      BY <1>1, <2>1, FS_Product
  <2>3. StatementLines \subseteq D \X (1..2)
    BY DEF StatementLines
  <2> QED
    BY <2>2, <2>3, FS_Subset, FS_CardinalityType
<1>3. lined \subseteq {f[p] : p \in StatementLines}
  <2> SUFFICES ASSUME NEW i \in lined PROVE i \in {f[p] : p \in StatementLines}
    OBVIOUS
  <2>1. i \in DOMAIN text /\ text[i] \in Statement
    BY DEF CompiledText
  <2>2. text[i].lines \in 0..2 /\ text[i].lines # 0
    BY <2>1, LinesAssumption DEF Lineless
  <2>3. 1 <= text[i].lines
    BY <2>2
  <2>4. <<i, 1>> \in StatementLines
    BY <2>1, <2>3 DEF StatementLines
  <2>5. f[<<i, 1>>] = i
    BY <2>4
  <2> QED
    BY <2>4, <2>5
<1>4. DOMAIN f = StatementLines
  OBVIOUS
<1> HIDE DEF f, lined
<1>5. Cardinality(lined) <= Cardinality(StatementLines)
  BY <1>2, <1>3, <1>4, Images
<1> QED
  BY <1>1, <1>2, <1>5 DEF lined

\* What is parsed are at most the statements that are not lost.
LEMMA ParsedAtMost ==
    ASSUME CompiledText, Ok
    PROVE  /\ Parsed \in Nat
           /\ Parsed <= Len(text) - Cardinality(LostStatements)
<1> DEFINE left == DOMAIN text \ LostStatements
           R == DOMAIN Kept(text, {"allow", "never"})
           D == DOMAIN Kept(text, {"define"})
           E == DOMAIN Kept(text, {"declare"})
<1>1. /\ IsFiniteSet(left) /\ Len(text) \in Nat
      /\ Cardinality(left) = Len(text) - Cardinality(LostStatements)
      /\ Cardinality(LostStatements) \in Nat
  BY Places, Rest DEF LostStatements
<1>2. /\ R = {j \in DOMAIN text : ~Lost(text, j) /\ Read(text, j).kind \in {"allow", "never"}}
      /\ D = {j \in DOMAIN text : ~Lost(text, j) /\ Read(text, j).kind \in {"define"}}
      /\ E = {j \in DOMAIN text : ~Lost(text, j) /\ Read(text, j).kind \in {"declare"}}
  BY DEF Kept
<1>3. /\ R \cap D = {} /\ (R \cup D) \cap E = {}
      /\ R \cup D \cup E \subseteq left
      /\ R \subseteq left /\ D \subseteq left /\ E \subseteq left
  BY <1>2 DEF LostStatements
<1> HIDE DEF R, D, E, left
<1>4. /\ IsFiniteSet(R) /\ IsFiniteSet(D) /\ IsFiniteSet(E)
      /\ IsFiniteSet(R \cup D \cup E) /\ Cardinality(R \cup D \cup E) <= Cardinality(left)
  BY <1>1, <1>3, FS_Subset
<1>5. /\ Cardinality(R \cup D \cup E) = Cardinality(R) + Cardinality(D) + Cardinality(E)
      /\ Cardinality(R) \in Nat /\ Cardinality(D) \in Nat /\ Cardinality(E) \in Nat
  <2> DEFINE V == R \cup D
  <2>1. /\ IsFiniteSet(V) /\ Cardinality(V) = Cardinality(R) + Cardinality(D)
        /\ Cardinality(R) \in Nat /\ Cardinality(D) \in Nat
    BY <1>3, <1>4, Apart
  <2>2. V \cap E = {}
    BY <1>3
  <2> HIDE DEF V
  <2>3. Cardinality(V \cup E) = Cardinality(V) + Cardinality(E) /\ Cardinality(E) \in Nat
    BY <1>4, <2>1, <2>2, Apart
  <2>4. V \cup E = R \cup D \cup E
    BY DEF V
  <2> QED
    BY <2>1, <2>3, <2>4
<1>6. DOMAIN crs.rules = R
  BY NamesOfStatements DEF R
<1>7. /\ Cardinality(DOMAIN crs.defs.fixed) \in Nat
      /\ Cardinality(DOMAIN crs.defs.fixed) <= Cardinality(D)
  <2> DEFINE f == [j \in D |-> Lower(Kept(text, {"define"})[j].name)]
  <2>1. DOMAIN crs.defs.fixed \subseteq {f[j] : j \in D}
    BY NamesOfStatements DEF D
  <2>2. DOMAIN f = D
    OBVIOUS
  <2> HIDE DEF f
  <2> QED
    BY <1>4, <2>1, <2>2, Images
<1>8. /\ Cardinality(DOMAIN crs.defs.entities) \in Nat
      /\ Cardinality(DOMAIN crs.defs.entities) <= Cardinality(E)
  <2> DEFINE f == [j \in E |-> Lower(Kept(text, {"declare"})[j].name)]
  <2>1. DOMAIN crs.defs.entities \subseteq {f[j] : j \in E}
    BY NamesOfStatements DEF E
  <2>2. DOMAIN f = E
    OBVIOUS
  <2> HIDE DEF f
  <2> QED
    BY <1>4, <2>1, <2>2, Images
<1> QED
  BY <1>1, <1>4, <1>5, <1>6, <1>7, <1>8 DEF Parsed

\* A text that compiles has as many lines too many as statements that are lost,
\* whatever was merged on the way, but for the statements that have no line of
\* their own (checker.py 269-280).
THEOREM LostIsReportedHolds == Spec => []LostIsReported
<1>1. CompiledText => LostIsReported
  <2> SUFFICES ASSUME CompiledText, Ok
               PROVE  Cardinality(LostStatements) <= Vanished + Cardinality(Lineless)
    BY DEF LostIsReported, LostStatements, Lineless
  <2>1. Len(text) \in Nat
    BY Places
  <2>2. Cardinality(LostStatements) \in Nat /\ Cardinality(Lineless) \in Nat
    BY Rest DEF LostStatements, Lineless
  <2>3. /\ Cardinality(StatementLines) \in Nat
        /\ Len(text) - Cardinality(Lineless) <= Cardinality(StatementLines)
    BY LinesEnough
  <2>4. Parsed \in Nat /\ Parsed <= Len(text) - Cardinality(LostStatements)
    BY ParsedAtMost
  <2> QED
    BY <2>1, <2>2, <2>3, <2>4 DEF Vanished
<1> QED
  BY <1>1, CompiledTextHolds, PTL

-----------------------------------------------------------------------------
(* The claims.                                                              *)

\* What is inferred is a class.
LEMMA InferredIsDefined ==
    ASSUME CompiledText, Ok, NEW root \in Builtin, NEW attrs, NEW excluded
    PROVE  has(crs.defs, InferClass(crs.defs, root, attrs, excluded))
<1>1. root \in DOMAIN crs.defs.line
  BY Lines
<1>2. CASE Candidates(crs.defs, root, attrs, excluded) = {}
  BY <1>1, <1>2 DEF InferClass, has
<1>3. CASE Candidates(crs.defs, root, attrs, excluded) # {}
  <2>1. InferClass(crs.defs, root, attrs, excluded) \in DOMAIN crs.defs.fixed
    BY <1>3, InferredIs DEF Candidates
  <2>2. DOMAIN crs.defs.fixed \subseteq DOMAIN crs.defs.line
    BY Sound, FixedIs
  <2> QED
    BY <2>1, <2>2 DEF has
<1> QED
  BY <1>2, <1>3

\* The keys of two functions laid over one another.
LEMMA OverKeys ==
    ASSUME NEW f, NEW g
    PROVE  DOMAIN Over(f, g) = DOMAIN f \cup DOMAIN g
BY DEF Over

\* A principal has a class of the schema, or the one it was declared with, and
\* no attributes but its own, those that it was declared with and its name.
LEMMA ResolvedIs ==
    ASSUME CompiledText, Ok, NEW name, NEW root \in Builtin, NEW attrs, NEW excluded
    PROVE  LET entity == Resolve(crs.defs, name, root, attrs, excluded) IN
           /\ \/ has(crs.defs, entity.class)
              \/ \E n \in Strangers : entity.class = crs.defs.entities[n].class
           /\ DOMAIN entity.attrs \subseteq DOMAIN attrs \cup DeclaredKeys \cup {"name"}
<1> DEFINE defs == crs.defs
           named == [k \in {"name"} |-> One(name)]
           entity == Resolve(defs, name, root, attrs, excluded)
<1>1. DOMAIN named = {"name"}
  OBVIOUS
<1>2. CASE name \in DOMAIN defs.entities
  <2> DEFINE own == defs.entities[name].attrs
  <2>1. /\ entity.class = defs.entities[name].class
        /\ entity.attrs = Over(attrs, Over(own, named))
    BY <1>2 DEF Resolve
  <2>2. DOMAIN own \subseteq DeclaredKeys
    BY <1>2 DEF DeclaredKeys
  <2>3. has(defs, entity.class) \/ name \in Strangers
    BY <1>2, <2>1 DEF Strangers, Undefined
  <2>4. DOMAIN entity.attrs = DOMAIN attrs \cup (DOMAIN own \cup {"name"})
    <3> HIDE DEF named, entity, own
    <3>1. DOMAIN Over(own, named) = DOMAIN own \cup {"name"}
      BY <1>1, OverKeys
    <3>2. DOMAIN Over(attrs, Over(own, named)) = DOMAIN attrs \cup DOMAIN Over(own, named)
      BY OverKeys
    <3> QED
      BY <2>1, <3>1, <3>2
  <2> HIDE DEF entity, own
  <2>5. DOMAIN entity.attrs \subseteq DOMAIN attrs \cup DeclaredKeys \cup {"name"}
    BY <2>2, <2>4
  <2>6. has(defs, entity.class) \/ \E n \in Strangers : entity.class = defs.entities[n].class
    BY <2>1, <2>3
  <2> QED
    BY <2>5, <2>6 DEF entity
<1>3. CASE name \notin DOMAIN defs.entities
  <2>1. /\ entity.class = InferClass(defs, root, Over(attrs, named), excluded)
        /\ entity.attrs = Over(attrs, named)
    BY <1>3 DEF Resolve
  <2> HIDE DEF entity, named
  <2>2. DOMAIN entity.attrs = DOMAIN attrs \cup {"name"}
    BY <1>1, <2>1, OverKeys
  <2>3. has(defs, entity.class)
    BY <2>1, InferredIsDefined
  <2> QED
    BY <2>2, <2>3 DEF entity
<1> QED
  BY <1>2, <1>3

\* An undefined class is matched by nothing but its Declare'd members.
LEMMA UndefinedIsUnmatched ==
    ASSUME CompiledText, Ok, NEW rule, NEW call, NEW slot \in UndefinedSlots(rule),
           \A n \in Strangers : crs.defs.entities[n].class # rule[slot].class
    PROVE  ~SpecsMatch(crs.defs, rule, Request(crs.defs, call))
<1> DEFINE req == Request(crs.defs, call)
           class == rule[slot].class
<1> SUFFICES ASSUME SpecsMatch(crs.defs, rule, req) PROVE FALSE
  OBVIOUS
<1>1. slot \in Slot /\ rule[slot] # None /\ ~has(crs.defs, class)
  BY DEF UndefinedSlots, Undefined
<1>2. req[slot] # None /\ ClassMatches(crs.defs, class, req[slot].class)
  BY <1>1 DEF SpecsMatch, MatchSpec
<1>3. ~has(crs.defs, req[slot].class) /\ req[slot].class = class
  BY <1>1, <1>2 DEF ClassMatches
<1>4. {"users", "endpoints", "services", "servers"} \subseteq Builtin
  BY DEF Builtin, Roots
<1>5. ASSUME NEW name, NEW root \in Builtin, NEW attrs, NEW excluded,
             req[slot] = Resolve(crs.defs, name, root, attrs, excluded)
      PROVE  FALSE
  <2> DEFINE principal == Resolve(crs.defs, name, root, attrs, excluded)
  <2>1. \/ has(crs.defs, principal.class)
        \/ \E n \in Strangers : principal.class = crs.defs.entities[n].class
    BY ResolvedIs
  <2> HIDE DEF req, principal
  <2> QED
    BY <1>3, <1>5, <2>1 DEF principal
<1>6. CASE slot = "subject"
  BY <1>4, <1>6, <1>5 DEF Request, Subject
<1>7. CASE slot = "accessor"
  BY <1>4, <1>7, <1>5 DEF Request, Accessor
<1>8. CASE slot = "server"
  BY <1>2, <1>4, <1>8, <1>5 DEF Request, Server
<1>9. CASE slot = "object"
  <2>1. req[slot].class = InferClass(crs.defs, "services", CallAttrs(call), None)
    BY <1>9 DEF Request
  <2> QED
    BY <1>3, <1>4, <2>1, InferredIsDefined
<1> QED
  BY <1>1, <1>6, <1>7, <1>8, <1>9 DEF Slot

\* A filter by an attribute that neither a Declare nor the hub gives is never met.
LEMMA UnmetIsUnmatched ==
    ASSUME CompiledText, Ok, NEW rule, NEW call, NEW slot \in Slot,
           NEW k \in UnmetFilters(rule, slot), k \notin {"role", "roles"}
    PROVE  ~SpecsMatch(crs.defs, rule, Request(crs.defs, call))
<1> DEFINE req == Request(crs.defs, call)
<1> SUFFICES ASSUME SpecsMatch(crs.defs, rule, req) PROVE FALSE
  OBVIOUS
<1>1. /\ slot \in {"subject", "accessor"} /\ rule[slot] # None
      /\ k \in DOMAIN rule[slot].attrs /\ k # "name" /\ k \notin DeclaredKeys
  BY DEF UnmetFilters
<1>2. k \in DOMAIN req[slot].attrs
  BY <1>1 DEF SpecsMatch, MatchSpec, AttrMatches
<1>3. {"users", "endpoints"} \subseteq Builtin
  BY DEF Builtin, Roots
<1>4. CASE slot = "subject"
  <2>1. req[slot] = Resolve(crs.defs, Name(call.user), "users", RoleAttrs(call), None)
    BY <1>4 DEF Request, Subject
  <2>2. DOMAIN RoleAttrs(call) \subseteq {"role", "roles"}
    <3>1. DOMAIN <<>> = {}
      OBVIOUS
    <3> QED
      BY <3>1 DEF RoleAttrs, FoldAttrs
  <2>3. DOMAIN req[slot].attrs \subseteq DOMAIN RoleAttrs(call) \cup DeclaredKeys \cup {"name"}
    BY <1>3, <2>1, ResolvedIs
  <2> QED
    BY <1>1, <1>2, <2>2, <2>3
<1>5. CASE slot = "accessor"
  <2>1. req[slot] = Resolve(crs.defs, Name(call.agent), "endpoints", <<>>, "servers")
    BY <1>5 DEF Request, Accessor
  <2>2. DOMAIN req[slot].attrs \subseteq DOMAIN <<>> \cup DeclaredKeys \cup {"name"}
    BY <1>3, <2>1, ResolvedIs
  <2>3. DOMAIN <<>> = {}
    OBVIOUS
  <2> QED
    BY <1>1, <1>2, <2>2, <2>3
<1> QED
  BY <1>1, <1>4, <1>5

\* A class that is inferred is the unpinned class that has no rival, or a
\* subclass of it.
LEMMA UnrivalledTaken ==
    ASSUME CompiledText, Ok, NEW root \in Builtin, NEW attrs, NEW excluded,
           excluded = IF root = "endpoints" THEN "servers" ELSE None,
           NEW c \in Unrivalled(root)
    PROVE  is_subclass(crs.defs, InferClass(crs.defs, root, attrs, excluded), c)
<1> DEFINE defs == crs.defs
           found == Candidates(defs, root, attrs, excluded)
           class == InferClass(defs, root, attrs, excluded)
<1>1. /\ c \in DOMAIN defs.fixed /\ is_subclass(defs, c, root) /\ defs.fixed[c] = <<>>
      /\ root = "endpoints" => ~is_subclass(defs, c, "servers")
      /\ \A d \in Inferable(root) : ~is_subclass(defs, d, c) => Depth(defs, d) < Depth(defs, c)
  BY DEF Unrivalled, Unpinned, Inferable
<1>2. c \in found
  <2>1. DOMAIN <<>> = {}
    OBVIOUS
  <2>2. FixedMatch(defs.fixed[c], attrs)
    BY <1>1, <2>1 DEF FixedMatch
  <2>3. excluded = None \/ ~is_subclass(defs, c, excluded)
    BY <1>1
  <2> QED
    BY <1>1, <2>2, <2>3 DEF Candidates
<1>3. class \in found /\ Outranks(defs, class, c)
  BY <1>2, InferredIs
<1>4. class \in Inferable(root)
  <2>1. "servers" # None
    BY StatementAssumption DEF Builtin
  <2> QED
    BY <1>3, <2>1 DEF Candidates, Inferable
<1>5. Depth(defs, class) \in Int /\ Depth(defs, c) \in Int
  <2>1. class \in DOMAIN defs.line /\ c \in DOMAIN defs.line
    BY <1>1, <1>4, Sound, FixedIs DEF Inferable
  <2>2. IsFiniteSet(defs.line[class]) /\ IsFiniteSet(defs.line[c])
    BY <2>1, Lines
  <2>3. Cardinality(defs.line[class]) \in Nat /\ Cardinality(defs.line[c]) \in Nat
    BY <2>2, FS_CardinalityType
  <2> QED
    BY <2>3 DEF Depth
<1>6. ~(Depth(defs, class) < Depth(defs, c))
  BY <1>3, <1>5 DEF Outranks
<1> QED
  BY <1>1, <1>4, <1>6

\* The second half of WarningsTrue.
Taken(call) ==
    LET req == Request(crs.defs, call)
        taken(class, root) == \A c \in Unrivalled(root) : is_subclass(crs.defs, class, c)
    IN /\ taken(req.object.class, "services")
       /\ Name(call.user) \notin DOMAIN crs.defs.entities => taken(req.subject.class, "users")
       /\ Name(call.agent) \notin DOMAIN crs.defs.entities => taken(req.accessor.class, "endpoints")

\* A warning that something never matches, or matches every call, is right, but
\* for the exceptions of WarningsTrue (checker.py 282-387).
THEOREM WarningsTrueHolds == Spec => []WarningsTrue
<1>1. CompiledText => WarningsTrue
  <2> SUFFICES ASSUME CompiledText, Ok, NEW call \in Call
               PROVE  /\ \A i \in DOMAIN crs.rules :
                            LET rule == crs.rules[i]
                                undefined == {slot \in UndefinedSlots(rule) : \A n \in Strangers :
                                                 crs.defs.entities[n].class # rule[slot].class}
                                unmet == (UNION {UnmetFilters(rule, slot) : slot \in Slot})
                                              \ {"role", "roles"}
                            IN \/ undefined # {}
                               \/ UnknownVerb(rule) /\ call.verb = "access"
                               \/ unmet # {}
                               => ~SpecsMatch(crs.defs, rule, Request(crs.defs, call))
                      /\ Taken(call)
    BY DEF WarningsTrue, Taken
  <2>1. ASSUME NEW i \in DOMAIN crs.rules, UnknownVerb(crs.rules[i]), call.verb = "access"
        PROVE  ~SpecsMatch(crs.defs, crs.rules[i], Request(crs.defs, call))
    BY <2>1 DEF UnknownVerb, Verbs, SpecsMatch, Request
  <2>2. Taken(call)
    <3>1. {"users", "endpoints", "services"} \subseteq Builtin
      BY DEF Builtin, Roots
    <3>2. \A c \in Unrivalled("services") :
             is_subclass(crs.defs, Request(crs.defs, call).object.class, c)
      BY <3>1, UnrivalledTaken DEF Request
    <3>3. ASSUME Name(call.user) \notin DOMAIN crs.defs.entities, NEW c \in Unrivalled("users")
          PROVE  is_subclass(crs.defs, Request(crs.defs, call).subject.class, c)
      BY <3>1, <3>3, UnrivalledTaken DEF Request, Subject, Resolve
    <3>4. ASSUME Name(call.agent) \notin DOMAIN crs.defs.entities, NEW c \in Unrivalled("endpoints")
          PROVE  is_subclass(crs.defs, Request(crs.defs, call).accessor.class, c)
      BY <3>1, <3>4, UnrivalledTaken DEF Request, Accessor, Resolve
    <3> QED
      BY <3>2, <3>3, <3>4 DEF Taken
  <2>3. ASSUME NEW i \in DOMAIN crs.rules, NEW slot \in UndefinedSlots(crs.rules[i]),
               \A n \in Strangers : crs.defs.entities[n].class # crs.rules[i][slot].class
        PROVE  ~SpecsMatch(crs.defs, crs.rules[i], Request(crs.defs, call))
    BY <2>3, UndefinedIsUnmatched
  <2>4. ASSUME NEW i \in DOMAIN crs.rules, NEW slot \in Slot,
               NEW k \in UnmetFilters(crs.rules[i], slot), k \notin {"role", "roles"}
        PROVE  ~SpecsMatch(crs.defs, crs.rules[i], Request(crs.defs, call))
    BY <2>4, UnmetIsUnmatched
  <2>5. ASSUME NEW i \in DOMAIN crs.rules
        PROVE  LET rule == crs.rules[i]
                   undefined == {slot \in UndefinedSlots(rule) : \A n \in Strangers :
                                    crs.defs.entities[n].class # rule[slot].class}
                   unmet == (UNION {UnmetFilters(rule, slot) : slot \in Slot})
                                 \ {"role", "roles"}
               IN \/ undefined # {}
                  \/ UnknownVerb(rule) /\ call.verb = "access"
                  \/ unmet # {}
                  => ~SpecsMatch(crs.defs, rule, Request(crs.defs, call))
    <3> DEFINE rule == crs.rules[i]
               undefined == {slot \in UndefinedSlots(rule) : \A n \in Strangers :
                                crs.defs.entities[n].class # rule[slot].class}
               unmet == (UNION {UnmetFilters(rule, slot) : slot \in Slot}) \ {"role", "roles"}
               unmatched == ~SpecsMatch(crs.defs, rule, Request(crs.defs, call))
    <3>1. undefined # {} => unmatched
      BY <2>3
    <3>2. UnknownVerb(rule) /\ call.verb = "access" => unmatched
      BY <2>1
    <3>3. unmet # {} => unmatched
      <4> SUFFICES ASSUME NEW k \in unmet PROVE unmatched
        OBVIOUS
      <4>1. PICK slot \in Slot : k \in UnmetFilters(rule, slot)
        OBVIOUS
      <4>2. k \notin {"role", "roles"}
        OBVIOUS
      <4> QED
        BY <2>4, <4>1, <4>2
    <3> HIDE DEF undefined, unmet, unmatched
    <3>4. \/ undefined # {}
          \/ UnknownVerb(rule) /\ call.verb = "access"
          \/ unmet # {}
          => unmatched
      BY <3>1, <3>2, <3>3
    <3> QED
      BY <3>4 DEF undefined, unmet, unmatched
  <2> QED
    BY <2>2, <2>5
<1> QED
  BY <1>1, CompiledTextHolds, PTL
=============================================================================
