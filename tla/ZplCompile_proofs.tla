-------------------------- MODULE ZplCompile_proofs --------------------------
(***************************************************************************)
(* Theorems about ZplCompile: the gate for handshakes agrees with check,   *)
(* conditions only narrow, the condition named in a reason is to blame,    *)
(* and editing rules is monotone, for every text, every call and whatever  *)
(* the code does to the characters of words.                               *)
(***************************************************************************)
EXTENDS ZplCompile, FiniteSetTheorems, WellFoundedInduction, TLAPS

-----------------------------------------------------------------------------
(* What a verdict means.                                                    *)

\* A rule set has a Never rule, or an Allow rule, that matches the call.
Fires(c, call, result) ==
    \E i \in Rules(c, result) : MatchRule(c.defs, c.rules[i], Request(c.defs, call))

\* The engine allows a call iff an Allow rule matches it and no Never rule does
\* (zpl_engine.py 227-263): neither order nor number of the rules counts.
LEMMA Verdict ==
    ASSUME NEW c, NEW call
    PROVE  allowed(c, call) <=> Fires(c, call, "allow") /\ ~Fires(c, call, "never")
<1> DEFINE req == Request(c.defs, call)
           matching(result) == {i \in Rules(c, result) : MatchRule(c.defs, c.rules[i], req)}
<1>1. \A result : matching(result) # {} <=> Fires(c, call, result)
  BY DEF Fires
<1>2. allowed(c, call) <=> evaluate(c, req).verdict = "allow"
  BY DEF allowed, check
<1>3. evaluate(c, req).verdict = IF matching("never") # {} THEN "deny"
                                 ELSE IF matching("allow") # {} THEN "allow" ELSE "deny"
  BY DEF evaluate
<1> HIDE DEF matching, req
<1> QED
  BY <1>1, <1>2, <1>3

-----------------------------------------------------------------------------
(* Reachability.                                                            *)

\* The principal of an allowed call reaches its service.
LEMMA Reachable ==
    ASSUME NEW c, NEW call, allowed(c, call), call.service # None
    PROVE  service_reachable(c, call)
<1>1. PICK i \in Rules(c, "allow") : MatchRule(c.defs, c.rules[i], Request(c.defs, call))
  BY Verdict DEF Fires
<1>2. \A slot \in Slot : MatchSpec(c.defs, slot, c.rules[i][slot], Request(c.defs, call)[slot])
  BY <1>1 DEF MatchRule, SpecsMatch
<1> QED
  BY <1>1, <1>2 DEF service_reachable

\* Whatever the rule set, the handshake gate (checker.py 467-509) lets through
\* every principal that check (390-464) lets through.
THEOREM AllowedReachableHolds == Spec => []AllowedReachable
<1>1. AllowedReachable
  BY Reachable DEF AllowedReachable
<1> QED
  BY <1>1, PTL

-----------------------------------------------------------------------------
(* What is compiled.                                                        *)

\* A text that compiles becomes its definitions and its rules; its Never rules
\* have no condition.
LEMMA CompiledForm ==
    ASSUME NEW s, compile_rules(s) # CompileError
    PROVE  LET rules == Kept(s, {"allow", "never"}) IN
           /\ compile_rules(s) =
                 [defs  |-> Definitions(Kept(s, {"define"}), Kept(s, {"declare"})),
                  rules |-> FoldRules(rules)]
           /\ \A i \in DOMAIN rules : rules[i].kind = "never" => rules[i].condition = None
  BY DEF compile_rules, Compiled, ConditionsCompile

LEMMA FoldedRule ==
    ASSUME NEW rules
    PROVE  /\ DOMAIN FoldRules(rules) = DOMAIN rules
           /\ \A i \in DOMAIN rules : /\ FoldRules(rules)[i] = FoldRule(rules[i])
                                      /\ FoldRules(rules)[i].result = rules[i].kind
                                      /\ FoldRules(rules)[i].condition = rules[i].condition
  BY DEF FoldRules, FoldRule

\* The rule set in force is the one the text compiles to.
CompiledText == /\ text \in Seq(Statement)
                /\ crs = compile_rules(text)

LEMMA CompiledTextHolds == Spec => []CompiledText
<1>1. Init => CompiledText
  BY TextAssumption DEF Init, CompiledText
<1>2. CompiledText /\ [Next]_vars => CompiledText'
  BY DEF CompiledText, Next, Write, vars
<1> QED
  BY <1>1, <1>2, PTL DEF Spec

-----------------------------------------------------------------------------
(* Conditions.                                                              *)

\* A rule without its condition.
Bare(rule) == [rule EXCEPT !.condition = None]

LEMMA BareMatches ==
    ASSUME NEW defs, NEW r, NEW req
    PROVE  SpecsMatch(defs, Bare(FoldRule(r)), req) <=> SpecsMatch(defs, FoldRule(r), req)
<1>1. /\ \A slot \in Slot : Bare(FoldRule(r))[slot] = FoldRule(r)[slot]
      /\ Bare(FoldRule(r)).verb = FoldRule(r).verb
  BY DEF Bare, FoldRule, Slot
<1> QED
  BY <1>1 DEF SpecsMatch

\* Taking all conditions away only allows more: they turn an Allow into a denial
\* and nothing else, and no Never rule hangs on one (zpl_engine.py 215-222, 280).
THEOREM ConditionOnlyNarrowsHolds == Spec => []ConditionOnlyNarrows
<1>1. CompiledText => ConditionOnlyNarrows
  <2> SUFFICES ASSUME CompiledText, Ok, NEW call \in Call, allowed(crs, call)
               PROVE  allowed(WithoutConditions(DOMAIN crs.rules), call)
    BY DEF ConditionOnlyNarrows
  <2> DEFINE rules == Kept(text, {"allow", "never"})
             bare == WithoutConditions(DOMAIN crs.rules)
             req == Request(crs.defs, call)
  <2>1. /\ crs = [defs  |-> Definitions(Kept(text, {"define"}), Kept(text, {"declare"})),
                  rules |-> FoldRules(rules)]
        /\ \A i \in DOMAIN rules : rules[i].kind = "never" => rules[i].condition = None
    BY CompiledForm DEF CompiledText, Ok
  <2> HIDE DEF rules
  <2>2. /\ DOMAIN crs.rules = DOMAIN rules
        /\ \A i \in DOMAIN rules : /\ crs.rules[i] = FoldRule(rules[i])
                                   /\ crs.rules[i].result = rules[i].kind
                                   /\ crs.rules[i].condition = rules[i].condition
    BY <2>1, FoldedRule
  <2>3. /\ bare.defs = crs.defs
        /\ DOMAIN bare.rules = DOMAIN rules
        /\ \A i \in DOMAIN rules : bare.rules[i] = Bare(crs.rules[i])
    BY <2>1, <2>2 DEF WithoutConditions, Bare
  <2>4. \A i \in DOMAIN rules : /\ bare.rules[i].result = crs.rules[i].result
                                /\ bare.rules[i].condition = None
    BY <2>2, <2>3 DEF Bare, FoldRule
  <2>5. \A i \in DOMAIN rules : SpecsMatch(crs.defs, bare.rules[i], req)
                                  <=> SpecsMatch(crs.defs, crs.rules[i], req)
    BY <2>2, <2>3, BareMatches
  <2> HIDE DEF bare, req
  <2>6. Fires(bare, call, "allow")
    <3>1. PICK i \in Rules(crs, "allow") : MatchRule(crs.defs, crs.rules[i], Request(crs.defs, call))
      BY Verdict DEF Fires
    <3>2. i \in DOMAIN rules /\ i \in Rules(bare, "allow")
      BY <3>1, <2>2, <2>3, <2>4 DEF Rules
    <3>3. MatchRule(bare.defs, bare.rules[i], Request(bare.defs, call))
      BY <3>1, <3>2, <2>3, <2>4, <2>5 DEF MatchRule, Holds, req
    <3> QED
      BY <3>2, <3>3 DEF Fires
  <2>7. ~Fires(bare, call, "never")
    <3> SUFFICES ASSUME NEW i \in Rules(bare, "never"),
                        MatchRule(bare.defs, bare.rules[i], Request(bare.defs, call))
                 PROVE  FALSE
      BY DEF Fires
    <3>1. i \in DOMAIN rules /\ i \in Rules(crs, "never") /\ crs.rules[i].condition = None
      BY <2>1, <2>2, <2>3, <2>4 DEF Rules
    <3>2. MatchRule(crs.defs, crs.rules[i], Request(crs.defs, call))
      BY <3>1, <2>3, <2>5 DEF MatchRule, Holds, req
    <3> QED
      BY <3>1, <3>2, Verdict DEF Fires
  <2> QED
    BY <2>6, <2>7, Verdict DEF bare
<1> QED
  BY <1>1, CompiledTextHolds, PTL
-----------------------------------------------------------------------------
(* Editing.                                                                 *)

\* No open statement ends a text.
Ended(s) == s # <<>> => s[Len(s)].ends # "open"

LEMMA FailsLost ==
    ASSUME NEW s, NEW i \in Nat \ {0}, Fails(s, i) PROVE Lost(s, i)
<1>1. i \in 1..i /\ i..(i - 1) = {}
  OBVIOUS
<1> QED
  BY <1>1 DEF Lost

\* What is appended to a closed text loses nothing of it and changes nothing.
LEMMA LostAppend ==
    ASSUME NEW S, NEW s \in Seq(S), Ended(s), NEW t \in S, NEW i \in 1..Len(s)
    PROVE  /\ Lost(Append(s, t), i) <=> Lost(s, i)
           /\ Read(Append(s, t), i) = Read(s, i)
<1> DEFINE u == Append(s, t)
<1>1. /\ \A j \in 1..Len(s) : u[j] = s[j]
      /\ Len(u) = Len(s) + 1 /\ Len(s) \in Nat /\ DOMAIN s = 1..Len(s)
  OBVIOUS
<1>2. \A j \in 1..Len(s) : s[j].ends = "open" => j # Len(s) /\ j + 1 \in 1..Len(s)
  <2>1. 1..Len(s) # {} => s # <<>>
    OBVIOUS
  <2>2. \A j \in 1..Len(s) : s[j].ends = "open" => j # Len(s)
    BY <2>1 DEF Ended
  <2> QED
    BY <2>2
<1> HIDE DEF u
<1>3. \A j \in 1..Len(s) : Beheaded(u, j) <=> Beheaded(s, j)
  BY <1>1 DEF Beheaded
<1>4. \A j \in 1..Len(s) : Fails(u, j) <=> Fails(s, j)
  <2>1. \A j \in 1..Len(s) : j # Len(u) /\ u[j] = s[j]
    BY <1>1
  <2> QED
    BY <1>2, <1>3, <2>1 DEF Fails
<1>5. \A j \in 1..i : j \in 1..Len(s) /\ \A k \in j..(i - 1) : k \in 1..Len(s)
  BY <1>1
<1>6. Lost(u, i) <=> Lost(s, i)
  BY <1>1, <1>4, <1>5 DEF Lost
<1>7. Read(u, i) = Read(s, i)
  BY <1>1, <1>2, <1>3 DEF Read
<1> QED
  BY <1>6, <1>7 DEF u

\* The statements kept stay, and only the new one, if it is of a kind asked for
\* and not lost, is added.
LEMMA KeptAppend ==
    ASSUME NEW S, NEW s \in Seq(S), Ended(s), NEW t \in S, NEW kinds
    PROVE  LET old == Kept(s, kinds)
               new == Kept(Append(s, t), kinds)
           IN /\ t.kind \notin kinds => new = old
              /\ DOMAIN old \subseteq DOMAIN new
              /\ \A i \in DOMAIN old : new[i] = old[i]
              /\ \A i \in DOMAIN new \ DOMAIN old : new[i] = t
<1> DEFINE u == Append(s, t)
           old == Kept(s, kinds)
           new == Kept(u, kinds)
           n == Len(s) + 1
<1>1. /\ DOMAIN s = 1..Len(s) /\ DOMAIN u = DOMAIN s \cup {n}
      /\ n \notin DOMAIN s /\ n \in Nat \ {0} /\ Len(u) = n
      /\ u[n] = t
      /\ \A i \in DOMAIN s : u[i] = s[i]
  OBVIOUS
<1>2. \A i \in DOMAIN s : (Lost(u, i) <=> Lost(s, i)) /\ Read(u, i) = Read(s, i)
  BY <1>1, LostAppend
<1> HIDE DEF u
<1>3. /\ DOMAIN old = {i \in DOMAIN s : ~Lost(s, i) /\ Read(s, i).kind \in kinds}
      /\ DOMAIN new = {i \in DOMAIN u : ~Lost(u, i) /\ Read(u, i).kind \in kinds}
      /\ \A i \in DOMAIN old : old[i] = Read(s, i)
      /\ \A i \in DOMAIN new : new[i] = Read(u, i)
  BY DEF Kept
<1>4. ~Lost(u, n) => Read(u, n) = t
  <2>1. ~Beheaded(u, n)
    <3>1. n > 1 => n - 1 \in DOMAIN s /\ n - 1 = Len(s) /\ s # <<>>
      BY <1>1
    <3> QED
      BY <1>1, <3>1 DEF Beheaded, Ended
  <2>2. ASSUME ~Lost(u, n) PROVE t.ends # "open"
    BY <1>1, <2>2, FailsLost DEF Fails
  <2> QED
    BY <1>1, <2>1, <2>2 DEF Read
<1> HIDE DEF n
<1>5. \A i \in DOMAIN old : i \in DOMAIN new /\ new[i] = old[i]
  BY <1>1, <1>2, <1>3
<1>6. \A i \in DOMAIN new \ DOMAIN old : i = n /\ new[i] = t /\ t.kind \in kinds
  BY <1>1, <1>2, <1>3, <1>4
<1>7. ASSUME t.kind \notin kinds PROVE new = old
  <2>1. {i \in DOMAIN u : ~Lost(u, i) /\ Read(u, i).kind \in kinds}
           = {i \in DOMAIN s : ~Lost(s, i) /\ Read(s, i).kind \in kinds}
    BY <1>7, <1>3, <1>5, <1>6
  <2>2. \A i \in {j \in DOMAIN s : ~Lost(s, j) /\ Read(s, j).kind \in kinds} :
           Read(u, i) = Read(s, i)
    BY <1>2
  <2> QED
    BY <2>1, <2>2 DEF Kept
<1> HIDE DEF old, new
<1>8. /\ t.kind \notin kinds => new = old
      /\ DOMAIN old \subseteq DOMAIN new
      /\ \A i \in DOMAIN old : new[i] = old[i]
      /\ \A i \in DOMAIN new \ DOMAIN old : new[i] = t
  BY <1>5, <1>6, <1>7
<1> QED
  BY <1>8 DEF old, new, u

\* Between two rule sets with the same definitions, the second with more rules,
\* all of them of one result: what the others do is the same.
LEMMA MoreRules ==
    ASSUME NEW c, NEW d, NEW result, NEW call,
           d.defs = c.defs,
           DOMAIN c.rules \subseteq DOMAIN d.rules,
           \A i \in DOMAIN c.rules : d.rules[i] = c.rules[i],
           \A i \in DOMAIN d.rules \ DOMAIN c.rules : d.rules[i].result = result
    PROVE  /\ \A r : Fires(c, call, r) => Fires(d, call, r)
           /\ \A r : r # result => (Fires(d, call, r) => Fires(c, call, r))
  BY DEF Fires, Rules

\* Writing an Allow rule only widens and writing a Never rule only narrows what
\* is allowed, whatever the rule, the call and the text it is written behind,
\* which only must not end in an open statement (checker.py 23-24, zpl_parser.py
\* 218-253).
THEOREM RulesMonotoneHolds == Spec => RulesMonotone
<1>1. CompiledText /\ CompiledText' => EditsMonotone
  <2> SUFFICES ASSUME CompiledText, CompiledText', NEW t \in Statement,
                      text' = Append(text, t), Ok, Ok', Ended(text), t.kind \in {"allow", "never"},
                      NEW call \in Call
               PROVE  IF t.kind = "allow" THEN allowed(crs, call) => allowed(crs', call)
                      ELSE allowed(crs', call) => allowed(crs, call)
    BY DEF EditsMonotone, Ended
  <2> DEFINE R == {"allow", "never"}
             old == Kept(text, R)
             new == Kept(Append(text, t), R)
  <2>1. /\ Kept(Append(text, t), {"define"}) = Kept(text, {"define"})
        /\ Kept(Append(text, t), {"declare"}) = Kept(text, {"declare"})
    BY KeptAppend DEF CompiledText
  <2>2. crs = [defs  |-> Definitions(Kept(text, {"define"}), Kept(text, {"declare"})),
               rules |-> FoldRules(old)]
    BY CompiledForm DEF CompiledText, Ok
  <2>3. crs' = [defs  |-> Definitions(Kept(text, {"define"}), Kept(text, {"declare"})),
                rules |-> FoldRules(new)]
    <3>1. compile_rules(Append(text, t)) = crs' /\ crs' # CompileError
      BY DEF CompiledText, Ok
    <3> QED
      BY <3>1, <2>1, CompiledForm
  <2>4. /\ DOMAIN old \subseteq DOMAIN new
        /\ \A i \in DOMAIN old : new[i] = old[i]
        /\ \A i \in DOMAIN new \ DOMAIN old : new[i] = t
    BY KeptAppend DEF CompiledText
  <2> HIDE DEF old, new
  <2>5. /\ DOMAIN FoldRules(old) = DOMAIN old /\ DOMAIN FoldRules(new) = DOMAIN new
        /\ \A i \in DOMAIN old : FoldRules(old)[i] = FoldRule(old[i])
        /\ \A i \in DOMAIN new : FoldRules(new)[i] = FoldRule(new[i])
                                 /\ FoldRules(new)[i].result = new[i].kind
    BY FoldedRule
  <2>6. /\ crs'.defs = crs.defs
        /\ DOMAIN crs.rules \subseteq DOMAIN crs'.rules
        /\ \A i \in DOMAIN crs.rules : crs'.rules[i] = crs.rules[i]
        /\ \A i \in DOMAIN crs'.rules \ DOMAIN crs.rules : crs'.rules[i].result = t.kind
    BY <2>2, <2>3, <2>4, <2>5
  <2>7. /\ \A r : Fires(crs, call, r) => Fires(crs', call, r)
        /\ \A r : r # t.kind => (Fires(crs', call, r) => Fires(crs, call, r))
    BY <2>6, MoreRules
  <2> QED
    BY <2>7, Verdict
<1> QED
  BY <1>1, CompiledTextHolds, PTL DEF RulesMonotone
-----------------------------------------------------------------------------
(* Reasons.                                                                 *)

\* A set of positions has a first.
LEMMA Least ==
    ASSUME NEW S \in SUBSET Nat, S # {} PROVE \E x \in S : \A y \in S : x <= y
\* The intervals from 0 to them have a least one.
<1> DEFINE T == {0..n : n \in S}
<1>1. T \subseteq FiniteSubsetsOf(Nat) /\ T # {}
  <2>1. ASSUME NEW n \in S PROVE (0..n) \in FiniteSubsetsOf(Nat)
    BY FS_Interval DEF FiniteSubsetsOf
  <2> QED
    BY <2>1
<1>2. \E m \in T : \A t \in T : ~ (<<t, m>> \in StrictSubsetOrdering(Nat))
  BY <1>1, WFMin, FS_StrictSubsetOrderingWellFounded
<1> PICK x \in S : \A y \in S : ~ (<<0..y, 0..x>> \in StrictSubsetOrdering(Nat))
  BY <1>2
<1>3. ASSUME NEW y \in S PROVE x <= y
  <2> SUFFICES ASSUME y < x PROVE FALSE
    OBVIOUS
  <2>1. (0..y) \subseteq 0..x /\ x \in 0..x /\ x \notin 0..y
    OBVIOUS
  <2>2. (0..y) \in SUBSET Nat /\ (0..x) \in SUBSET Nat /\ (0..y) # 0..x
    BY <2>1
  <2> QED
    BY <2>1, <2>2 DEF StrictSubsetOrdering
<1> QED
  BY <1>3

LEMMA MinIsIn ==
    ASSUME NEW S \in SUBSET Nat, S # {}
    PROVE  Min(S) \in S /\ \A x \in S : Min(S) <= x
  BY Least DEF Min

\* Some set of positions has a last.
LEMMA MaxIsIn ==
    ASSUME NEW n \in Nat, NEW S \in SUBSET (0..n), S # {}
    PROVE  Max(S) \in S /\ \A x \in S : x <= Max(S)
<1> DEFINE T == {n - x : x \in S}
<1>1. /\ \A x \in S : x \in Nat /\ x <= n /\ n - x \in Nat /\ n - (n - x) = x
      /\ T \in SUBSET Nat /\ T # {}
  <2>1. \A x \in S : x \in Nat /\ x <= n
    OBVIOUS
  <2>2. \A x \in S : n - x \in Nat /\ n - (n - x) = x
    BY <2>1
  <2> QED
    BY <2>1, <2>2
<1>2. PICK t \in T : \A u \in T : t <= u
  BY <1>1, Least
<1>3. n - t \in S /\ \A x \in S : n - t >= x
  <2>1. PICK y \in S : t = n - y
    OBVIOUS
  <2>2. n - t = y
    BY <1>1, <2>1
  <2>3. ASSUME NEW x \in S PROVE y >= x
    <3>1. n - x \in T
      OBVIOUS
    <3>2. n - y <= n - x
      BY <1>2, <2>1, <3>1
    <3> QED
      BY <1>1, <3>2
  <2> QED
    BY <2>2, <2>3
<1> HIDE DEF T
<1>4. \E x \in S : \A y \in S : x >= y
  BY <1>3
<1> QED
  BY <1>4 DEF Max

\* The Allow rule that a denial names would allow the call but for its
\* condition (checker.py 448-458).
THEOREM ConditionBlamedHolds == Spec => []ConditionBlamed
<1>1. CompiledText => ConditionBlamed
  <2> SUFFICES ASSUME CompiledText, Ok, NEW call \in Call,
                      check(crs, call).condition # 0
               PROVE  /\ ~allowed(crs, call)
                      /\ allowed(WithoutConditions({check(crs, call).condition}), call)
    BY DEF ConditionBlamed
  <2> DEFINE req == Request(crs.defs, call)
             i == Min(Blamed(crs, req))
             without == WithoutConditions({i})
  <2>1. evaluate(crs, req).rule = 0 /\ Blamed(crs, req) # {} /\ check(crs, call).condition = i
    BY DEF check
  <2>2. DOMAIN crs.rules \subseteq Nat \ {0}
    <3>1. /\ crs.rules = FoldRules(Kept(text, {"allow", "never"}))
          /\ DOMAIN Kept(text, {"allow", "never"}) \subseteq 1..Len(text)
      <4>1. crs.rules = FoldRules(Kept(text, {"allow", "never"}))
        BY CompiledForm DEF CompiledText, Ok
      <4>2. DOMAIN text = 1..Len(text)
        BY DEF CompiledText
      <4> QED
        BY <4>1, <4>2 DEF Kept
    <3> QED
      BY <3>1, FoldedRule
  <2>3. i \in Rules(crs, "allow") /\ SpecsMatch(crs.defs, crs.rules[i], req)
    <3>1. Blamed(crs, req) \in SUBSET Nat
      BY <2>2 DEF Blamed, Rules
    <3>2. i \in Blamed(crs, req)
      BY <2>1, <3>1, MinIsIn
    <3> QED
      BY <3>2 DEF Blamed
  \* Rule 0 is the default: no rule matches.
  <2>4. ~Fires(crs, call, "never") /\ ~Fires(crs, call, "allow")
    <3> DEFINE matching(result) == {j \in Rules(crs, result) : MatchRule(crs.defs, crs.rules[j], req)}
    <3>1. \A result : matching(result) \in SUBSET (Nat \ {0})
      BY <2>2 DEF Rules
    <3>2. \A result : matching(result) # {} <=> Fires(crs, call, result)
      BY DEF Fires
    <3>3. evaluate(crs, req).rule = IF matching("never") # {} THEN Min(matching("never"))
                                    ELSE IF matching("allow") # {} THEN Min(matching("allow"))
                                    ELSE 0
      BY DEF evaluate
    <3> HIDE DEF matching
    <3>4. \A result : matching(result) # {} => Min(matching(result)) # 0
      BY <3>1, MinIsIn
    <3> QED
      BY <2>1, <3>2, <3>3, <3>4
  <2> HIDE DEF i, req
  <2>5. /\ without.defs = crs.defs /\ DOMAIN without.rules = DOMAIN crs.rules
        /\ without.rules[i] = Bare(crs.rules[i])
        /\ \A j \in DOMAIN crs.rules : j # i => without.rules[j] = crs.rules[j]
    BY <2>3, CompiledForm DEF WithoutConditions, Bare, Rules, CompiledText, Ok
  <2>6. /\ without.rules[i].result = "allow" /\ without.rules[i].condition = None
        /\ SpecsMatch(crs.defs, without.rules[i], req)
    <3>1. crs.rules[i] = FoldRule(Kept(text, {"allow", "never"})[i])
      <4>1. crs.rules = FoldRules(Kept(text, {"allow", "never"}))
        BY CompiledForm DEF CompiledText, Ok
      <4> QED
        BY <2>3, <4>1, FoldedRule DEF Rules
    <3>2. crs.rules[i].result = "allow"
      BY <2>3 DEF Rules
    <3>3. SpecsMatch(crs.defs, Bare(crs.rules[i]), req)
      BY <2>3, <3>1, BareMatches
    <3>4. Bare(crs.rules[i]).result = crs.rules[i].result /\ Bare(crs.rules[i]).condition = None
      BY <3>1 DEF Bare, FoldRule
    <3> QED
      BY <2>5, <3>2, <3>3, <3>4
  <2> HIDE DEF without
  <2>7. Fires(without, call, "allow")
    <3>1. i \in Rules(without, "allow")
      BY <2>3, <2>5, <2>6 DEF Rules
    <3>2. MatchRule(without.defs, without.rules[i], Request(without.defs, call))
      BY <2>5, <2>6 DEF MatchRule, Holds, req
    <3> QED
      BY <3>1, <3>2 DEF Fires
  <2>8. ~Fires(without, call, "never")
    <3>1. \A j \in Rules(without, "never") :
             j \in Rules(crs, "never") /\ without.rules[j] = crs.rules[j]
      BY <2>5, <2>6 DEF Rules
    <3> QED
      BY <2>4, <2>5, <3>1 DEF Fires
  <2> QED
    BY <2>1, <2>4, <2>7, <2>8, Verdict DEF without
<1> QED
  BY <1>1, CompiledTextHolds, PTL
-----------------------------------------------------------------------------
(* When two texts have the same definitions.                                *)

\* The Define statement that makes a class, and its own fixed attributes.
Made(defines, c) == Maker(defines, Written(defines, c))
Own(defines, c) == FoldAttrs(MergedAttrs(defines, Written(defines, c)))

\* What Fixed and Valid make of the attributes and the parents.
FixedBy(own, line, named) ==
    LET having(c, k) == {d \in line[c] : k \in DOMAIN own[d]}
        nearest(c, k) == CHOOSE d \in having(c, k) :
                            \A e \in having(c, k) : e \in line[d]
        keys(c) == UNION {DOMAIN own[d] : d \in line[c]}
    IN [c \in named |->
           [k \in {j \in keys(c) : None \notin own[nearest(c, j)][j].of} |->
               own[nearest(c, k)][k]]]

ValidBy(parent, classes) ==
    /\ \A c \in classes \ Roots : parent[c] \in classes
    /\ \A c \in classes \ Roots : c \notin Line(parent, parent[c])

\* The schema is determined by the names of the classes, their parents, their
\* attributes and the aliases.
LEMMA SameSchema ==
    ASSUME NEW D, NEW E, NoDuplicate(D), NoDuplicate(E), Classes(E) = Classes(D),
           \A c \in Classes(D) \ Builtin : /\ ClassName(Made(E, c).parent) = ClassName(Made(D, c).parent)
                                           /\ Own(E, c) = Own(D, c)
    PROVE  /\ Valid(E) <=> Valid(D)
           /\ Parent(E) = Parent(D)
           /\ \A line : Fixed(E, line) = Fixed(D, line)
<1>1. Parent(E) = Parent(D)
  BY DEF Parent, Made, Builtin
<1>2. Valid(E) <=> Valid(D)
  <2>1. Valid(E) <=> ValidBy(Parent(E), Classes(E))
    BY DEF Valid, ValidBy
  <2>2. Valid(D) <=> ValidBy(Parent(D), Classes(D))
    BY DEF Valid, ValidBy
  <2> QED
    BY <1>1, <2>1, <2>2
<1>3. ASSUME NEW line PROVE Fixed(E, line) = Fixed(D, line)
  <2> DEFINE own(F) == [c \in Classes(F) |-> IF c \in Builtin THEN <<>> ELSE Own(F, c)]
  <2>1. \A F : Fixed(F, line) = FixedBy(own(F), line, Classes(F) \ Builtin)
    BY DEF Fixed, FixedBy, Own
  <2>2. own(E) = own(D)
    OBVIOUS
  <2> HIDE DEF own
  <2> QED
    BY <2>1, <2>2
<1> QED
  BY <1>1, <1>2, <1>3

LEMMA SameDefinitions ==
    ASSUME NEW D, NEW E, NEW d, NEW e, Parent(E) = Parent(D), Classes(E) = Classes(D),
           \A line : Fixed(E, line) = Fixed(D, line), Aka(E) = Aka(D),
           \A classes : Entities(e, classes) = Entities(d, classes)
    PROVE  Definitions(E, e) = Definitions(D, d)
  BY DEF Definitions
-----------------------------------------------------------------------------
(* Folding.                                                                 *)

LEMMA LowerTwice == \A w : Lower(Lower(w)) = Lower(w)
  BY FoldingAssumption DEF Lower

LEMMA NoneIsLower == \A w : Lower(w) = None <=> w = None
  BY FoldingAssumption DEF Lower

LEMMA ClassNameTwice == \A w : ClassName(Lower(w)) = ClassName(w)
  BY LowerTwice DEF ClassName

LEMMA LowerSetTwice ==
    ASSUME NEW S PROVE {Lower(x) : x \in {Lower(w) : w \in S}} = {Lower(w) : w \in S}
  BY LowerTwice

Valued(attrs) == \A k \in DOMAIN attrs : DOMAIN attrs[k] = {"list", "of"}

LEMMA FoldValueIs ==
    ASSUME NEW k, NEW v, DOMAIN v = {"list", "of"}
    PROVE  /\ DOMAIN FoldValue(k, v) = {"list", "of"}
           /\ FoldValue(k, v).list = v.list
           /\ FoldValue(k, v).of = IF k = "path" THEN v.of ELSE {Lower(w) : w \in v.of}
  BY DEF FoldValue

LEMMA FoldValueTwice ==
    ASSUME NEW k, NEW v, DOMAIN v = {"list", "of"}
    PROVE  FoldValue(k, FoldValue(k, v)) = FoldValue(k, v)
<1>1. CASE k = "path"
  BY <1>1 DEF FoldValue
<1>2. CASE k # "path"
  <2> DEFINE u == FoldValue(k, v)
  <2>1. /\ DOMAIN u = {"list", "of"}
        /\ u = [x \in {"list", "of"} |-> IF x = "of" THEN {Lower(w) : w \in v.of} ELSE v[x]]
    BY <1>2 DEF FoldValue
  <2> HIDE DEF u
  <2>2. FoldValue(k, u) = [x \in {"list", "of"} |->
                              IF x = "of" THEN {Lower(w) : w \in u.of} ELSE u[x]]
    BY <1>2, <2>1 DEF FoldValue
  <2>3. {Lower(w) : w \in u.of} = {Lower(w) : w \in v.of}
    BY <2>1, LowerSetTwice
  <2>4. FoldValue(k, u) = u
    BY <2>1, <2>2, <2>3
  <2> QED
    BY <2>4 DEF u
<1> QED
  BY <1>1, <1>2

LEMMA FoldAttrsTwice ==
    ASSUME NEW attrs, Valued(attrs)
    PROVE  FoldAttrs(FoldAttrs(attrs)) = FoldAttrs(attrs)
<1> DEFINE f == FoldAttrs(attrs)
<1>1. DOMAIN f = DOMAIN attrs /\ \A k \in DOMAIN f : f[k] = FoldValue(k, attrs[k])
  BY DEF FoldAttrs
<1>2. \A k \in DOMAIN f : FoldValue(k, f[k]) = FoldValue(k, attrs[k])
  BY <1>1, FoldValueTwice DEF Valued
<1> HIDE DEF f
<1>3. FoldAttrs(f) = [k \in DOMAIN attrs |-> FoldValue(k, attrs[k])]
  BY <1>1, <1>2 DEF FoldAttrs
<1> QED
  BY <1>3 DEF f, FoldAttrs

\* A statement, and the same statement in lower case.
LEMMA FoldedIs ==
    ASSUME NEW s \in Readings
    PROVE  LET f == FoldedStatement(s) IN
           /\ f.kind = s.kind /\ f.ends = s.ends
           /\ s.kind = "define" =>
                 /\ f.name = Lower(s.name) /\ f.parent = Lower(s.parent)
                 /\ f.aka = IF s.aka = None THEN None ELSE Lower(s.aka)
                 /\ f.attrs = FoldAttrs(s.attrs) /\ Valued(s.attrs)
           /\ s.kind = "declare" =>
                 /\ f.name = Lower(s.name) /\ f.class = Lower(s.class)
                 /\ f.attrs = FoldAttrs(s.attrs) /\ Valued(s.attrs)
<1> DEFINE f == FoldedStatement(s)
<1>1. {"kind", "ends"} \subseteq DOMAIN s
  BY FoldingAssumption
<1>2. CASE s.kind = "define"
  <2>1. {"name", "aka", "parent", "attrs"} \subseteq DOMAIN s /\ Valued(s.attrs)
    BY <1>2, FoldingAssumption DEF Valued
  <2>2. f = [s EXCEPT !.name = Lower(@), !.aka = IF @ = None THEN None ELSE Lower(@),
                      !.parent = Lower(@), !.attrs = FoldAttrs(@)]
    BY <1>2 DEF FoldedStatement
  <2> HIDE DEF f
  <2>3. f.kind = s.kind /\ f.ends = s.ends
    BY <1>1, <2>2
  <2>4. f.name = Lower(s.name) /\ f.parent = Lower(s.parent)
    BY <2>1, <2>2
  <2>5. f.aka = IF s.aka = None THEN None ELSE Lower(s.aka)
    BY <2>1, <2>2
  <2>6. f.attrs = FoldAttrs(s.attrs)
    BY <2>1, <2>2
  <2> QED
    BY <1>2, <2>1, <2>3, <2>4, <2>5, <2>6 DEF f
<1>3. CASE s.kind = "declare"
  <2>1. {"name", "class", "attrs"} \subseteq DOMAIN s /\ Valued(s.attrs)
    BY <1>3, FoldingAssumption DEF Valued
  <2>2. f = [s EXCEPT !.name = Lower(@), !.class = Lower(@), !.attrs = FoldAttrs(@)]
    BY <1>3 DEF FoldedStatement
  <2> HIDE DEF f
  <2>3. f.kind = s.kind /\ f.ends = s.ends
    BY <1>1, <2>2
  <2>4. f.name = Lower(s.name) /\ f.class = Lower(s.class)
    BY <2>1, <2>2
  <2>6. f.attrs = FoldAttrs(s.attrs)
    BY <2>1, <2>2
  <2> QED
    BY <1>3, <2>1, <2>3, <2>4, <2>6 DEF f
<1>4. CASE s.kind \in {"allow", "never"}
  <2> DEFINE spec(p) == IF p = None THEN None
                        ELSE [class |-> Lower(p.class), attrs |-> FoldAttrs(p.attrs)]
  <2>1. f = [s EXCEPT !.subject = spec(@), !.accessor = spec(@), !.verb = Lower(@),
                      !.object = spec(@), !.server = spec(@)]
    BY <1>4 DEF FoldedStatement
  <2> HIDE DEF f, spec
  <2>2. f.kind = s.kind /\ f.ends = s.ends
    BY <1>1, <2>1
  <2> QED
    BY <1>4, <2>2 DEF f
<1>5. CASE s.kind \notin {"define", "declare", "allow", "never"}
  BY <1>5 DEF FoldedStatement
<1> QED
  BY <1>2, <1>3, <1>4, <1>5

\* A rule and the same rule in lower case are folded to one rule.
LEMMA FoldedRuleIs ==
    ASSUME NEW s \in Readings, s.kind \in {"allow", "never"}
    PROVE  /\ FoldRule(FoldedStatement(s)) = FoldRule(s)
           /\ FoldedStatement(s).condition = s.condition
<1> DEFINE spec(p) == IF p = None THEN None
                      ELSE [class |-> Lower(p.class), attrs |-> FoldAttrs(p.attrs)]
           f == FoldedStatement(s)
<1>1. f = [s EXCEPT !.subject = spec(@), !.accessor = spec(@), !.verb = Lower(@),
                    !.object = spec(@), !.server = spec(@)]
  BY DEF FoldedStatement
<1>2. {"subject", "accessor", "object", "server", "verb", "condition", "kind"} \subseteq DOMAIN s
  BY FoldingAssumption DEF Slot
<1>3. \A slot \in Slot : s[slot] # None => Valued(s[slot].attrs) /\ f[slot] # None
  BY FoldingAssumption DEF Valued
<1> HIDE DEF f
<1>4. f.kind = s.kind /\ f.condition = s.condition
  BY <1>1, <1>2
<1>5. f.verb = Lower(s.verb)
  BY <1>1, <1>2
<1>6. f.subject = spec(s.subject)
  BY <1>1, <1>2, Zenon
<1>7. f.accessor = spec(s.accessor)
  BY <1>1, <1>2, Zenon
<1>8. f.object = spec(s.object)
  BY <1>1, <1>2, Zenon
<1>9. f.server = spec(s.server)
  BY <1>1, <1>2, Zenon
<1>10. \A slot \in Slot : f[slot] = spec(s[slot])
  BY <1>6, <1>7, <1>8, <1>9 DEF Slot
<1>11. ASSUME NEW slot \in Slot PROVE FoldSpec(f[slot]) = FoldSpec(s[slot])
  <2>1. CASE s[slot] = None
    BY <2>1, <1>10 DEF FoldSpec
  <2>2. CASE s[slot] # None
    <3>1. f[slot] = [class |-> Lower(s[slot].class), attrs |-> FoldAttrs(s[slot].attrs)]
          /\ f[slot] # None
      BY <1>10, <1>3, <2>2
    <3>2. FoldSpec(f[slot]) = [class |-> ClassName(Lower(s[slot].class)),
                               attrs |-> FoldAttrs(FoldAttrs(s[slot].attrs))]
      BY <3>1 DEF FoldSpec
    <3>3. FoldAttrs(FoldAttrs(s[slot].attrs)) = FoldAttrs(s[slot].attrs)
      BY <2>2, <1>3, FoldAttrsTwice
    <3> QED
      BY <2>2, <3>2, <3>3, ClassNameTwice DEF FoldSpec
  <2> QED
    BY <2>1, <2>2
<1>12. Lower(f.verb) = Lower(s.verb)
  BY <1>5, LowerTwice
<1>13. FoldRule(f) = FoldRule(s)
  BY <1>4, <1>11, <1>12 DEF FoldRule, Slot
<1> QED
  BY <1>4, <1>13 DEF f
\* A text, or the part of it that is kept, in lower case.
Folded(s) == [i \in DOMAIN s |-> FoldedStatement(s[i])]

LEMMA StatementsRead ==
    /\ Statement \subseteq Readings
    /\ \A s \in Statement : Headless(s) \in Readings
    /\ \A s, u \in Statement : /\ Filled(s, First(u)) \in Readings
                              /\ Filled(Headless(s), First(u)) \in Readings
  BY DEF Readings

\* Cutting off the Never and folding may change places.
LEMMA HeadlessFolded ==
    ASSUME NEW s \in Statement
    PROVE  FoldedStatement(Headless(s)) = Headless(FoldedStatement(s))
<1>1. CASE s.kind = "never"
  <2> DEFINE spec(p) == IF p = None THEN None
                        ELSE [class |-> Lower(p.class), attrs |-> FoldAttrs(p.attrs)]
             h == [s EXCEPT !.kind = "allow"]
             f == [s EXCEPT !.subject = spec(@), !.accessor = spec(@), !.verb = Lower(@),
                            !.object = spec(@), !.server = spec(@)]
  <2>1. Headless(s) = h /\ FoldedStatement(s) = f
    BY <1>1 DEF Headless, FoldedStatement
  <2>2. {"subject", "accessor", "object", "server", "verb", "kind"} \subseteq DOMAIN s
    BY <1>1, StatementsRead, FoldingAssumption DEF Slot
  <2> HIDE DEF spec
  <2>3. h.kind = "allow" /\ f.kind = "never"
    BY <1>1, <2>2
  <2>4. [h EXCEPT !.subject = spec(@), !.accessor = spec(@), !.verb = Lower(@),
                  !.object = spec(@), !.server = spec(@)] = [f EXCEPT !.kind = "allow"]
    BY <2>2
  <2>5. FoldedStatement(h) = [h EXCEPT !.subject = spec(@), !.accessor = spec(@), !.verb = Lower(@),
                                       !.object = spec(@), !.server = spec(@)]
    BY <2>3 DEF FoldedStatement, spec
  <2>6. Headless(f) = [f EXCEPT !.kind = "allow"]
    BY <2>3 DEF Headless
  <2> HIDE DEF h, f
  <2> QED
    BY <2>1, <2>4, <2>5, <2>6
<1>2. CASE s.kind # "never"
  BY <1>2, StatementsRead, FoldedIs DEF Headless
<1> QED
  BY <1>1, <1>2

\* So may giving an open statement its class, a first word.
LEMMA FilledFolded ==
    ASSUME NEW s \in Readings, NEW u \in Statement
    PROVE  FoldedStatement(Filled(s, First(u))) = Filled(FoldedStatement(s), First(u))
<1> DEFINE w == First(u)
           F == FoldedStatement(s)
           g == Filled(s, w)
<1>1. F.kind = s.kind /\ "kind" \in DOMAIN s /\ Lower(w) = w
  BY FoldedIs, FoldingAssumption
<1>6. s.kind \in {"allow", "never"} => /\ s.object # None /\ g.object # None
                                      /\ (s.server = None \/ g.server # None)
  <2> SUFFICES ASSUME s.kind \in {"allow", "never"}
               PROVE  s.object # None /\ g.object # None /\ (s.server = None \/ g.server # None)
    OBVIOUS
  <2>1. \A slot \in Slot : s[slot] # None => g[slot] # None
    BY FoldingAssumption
  <2>2. s.object # None
    BY FoldingAssumption
  <2> HIDE DEF g
  <2> QED
    BY <2>1, <2>2 DEF Slot
<1> HIDE DEF w
<1>2. CASE s.kind = "define"
  <2>1. {"name", "aka", "parent", "attrs"} \subseteq DOMAIN s
    BY <1>2, FoldingAssumption
  <2>2. F = [s EXCEPT !.name = Lower(@), !.aka = IF @ = None THEN None ELSE Lower(@),
                      !.parent = Lower(@), !.attrs = FoldAttrs(@)]
    BY <1>2 DEF FoldedStatement
  <2>3. g = [s EXCEPT !.parent = w]
    BY <1>2 DEF Filled
  <2>4. Filled(F, w) = [F EXCEPT !.parent = w]
    BY <1>1, <1>2 DEF Filled
  <2> HIDE DEF F, g
  <2>5. g.kind = "define"
    BY <1>1, <1>2, <2>3
  <2>6. FoldedStatement(g) = [g EXCEPT !.name = Lower(@), !.aka = IF @ = None THEN None ELSE Lower(@),
                                       !.parent = Lower(@), !.attrs = FoldAttrs(@)]
    BY <2>5 DEF FoldedStatement
  <2>7. FoldedStatement(g) = [F EXCEPT !.parent = w]
    BY <1>1, <2>1, <2>2, <2>3, <2>6
  <2> QED
    BY <2>4, <2>7 DEF F, g, w
<1>3. CASE s.kind = "declare"
  <2>1. {"name", "class", "attrs"} \subseteq DOMAIN s
    BY <1>3, FoldingAssumption
  <2>2. F = [s EXCEPT !.name = Lower(@), !.class = Lower(@), !.attrs = FoldAttrs(@)]
    BY <1>3 DEF FoldedStatement
  <2>3. g = [s EXCEPT !.class = w]
    BY <1>3 DEF Filled
  <2>4. Filled(F, w) = [F EXCEPT !.class = w]
    BY <1>1, <1>3 DEF Filled
  <2> HIDE DEF F, g
  <2>5. g.kind = "declare"
    BY <1>1, <1>3, <2>3
  <2>6. FoldedStatement(g) = [g EXCEPT !.name = Lower(@), !.class = Lower(@), !.attrs = FoldAttrs(@)]
    BY <2>5 DEF FoldedStatement
  <2>7. FoldedStatement(g) = [F EXCEPT !.class = w]
    BY <1>1, <2>1, <2>2, <2>3, <2>6
  <2> QED
    BY <2>4, <2>7 DEF F, g, w
<1>4. CASE s.kind \in {"allow", "never"}
  <2> DEFINE spec(p) == IF p = None THEN None
                        ELSE [class |-> Lower(p.class), attrs |-> FoldAttrs(p.attrs)]
             lowered(r) == [r EXCEPT !.subject = spec(@), !.accessor = spec(@), !.verb = Lower(@),
                                     !.object = spec(@), !.server = spec(@)]
  <2>1. /\ {"subject", "accessor", "object", "server", "verb", "kind"} \subseteq DOMAIN s
        /\ s.server # None => F.server # None
    BY <1>1, <1>4, FoldingAssumption DEF Slot
  <2>2. F = lowered(s) /\ (g.kind \in {"allow", "never"} => FoldedStatement(g) = lowered(g))
    BY <1>4 DEF FoldedStatement
  <2>3. F.server = spec(s.server) /\ F.object = spec(s.object)
    BY <2>1, <2>2, Zenon
  <2>4. s.server = None <=> F.server = None
    BY <2>1, <2>3
  <2>5. CASE s.server # None
    <3> DEFINE new == [class |-> w, attrs |-> s.server.attrs]
    <3>1. g = [s EXCEPT !.server = new]
      BY <1>4, <2>5 DEF Filled
    <3>2. Filled(F, w) = [F EXCEPT !.server = [class |-> w, attrs |-> F.server.attrs]]
      BY <1>1, <1>4, <2>4, <2>5 DEF Filled
    <3>3. F.server.attrs = FoldAttrs(s.server.attrs)
      BY <2>3, <2>5
    <3>4. new # None
      BY <1>4, <1>6, <2>1, <2>5, <3>1
    <3>5. spec(new) = [class |-> w, attrs |-> F.server.attrs]
      BY <1>1, <3>3, <3>4
    <3> HIDE DEF F, g, spec, new
    <3>6. lowered(g) = [lowered(s) EXCEPT !.server = spec(new)]
      BY <2>1, <3>1
    <3>7. g.kind = s.kind
      BY <2>1, <3>1
    <3> QED
      BY <1>4, <2>2, <3>2, <3>5, <3>6, <3>7 DEF g, F, w
  <2>6. CASE s.server = None
    <3> DEFINE new == [class |-> w, attrs |-> s.object.attrs]
    <3>1. g = [s EXCEPT !.object = new]
      BY <1>4, <2>6 DEF Filled
    <3>2. Filled(F, w) = [F EXCEPT !.object = [class |-> w, attrs |-> F.object.attrs]]
      BY <1>1, <1>4, <2>4, <2>6 DEF Filled
    <3>0. s.object # None /\ g.object # None
      <4> HIDE DEF F, g, new
      <4> QED
        BY <1>4, <1>6
    <3> HIDE DEF F, g
    <3>3. F.object.attrs = FoldAttrs(s.object.attrs)
      BY <2>3, <3>0
    <3>4. new # None
      <4>1. g.object = new
        BY <2>1, <3>1
      <4> QED
        BY <3>0, <4>1
    <3>5. spec(new) = [class |-> w, attrs |-> F.object.attrs]
      BY <1>1, <3>3, <3>4
    <3> HIDE DEF F, g, spec, new
    <3>6. lowered(g) = [lowered(s) EXCEPT !.object = spec(new)]
      BY <2>1, <3>1
    <3>7. g.kind = s.kind
      BY <2>1, <3>1
    <3> QED
      BY <1>4, <2>2, <3>2, <3>5, <3>6, <3>7 DEF g, F, w
  <2> QED
    BY <2>5, <2>6
<1>5. CASE s.kind \notin {"define", "declare", "allow", "never"}
  <2>1. F = s
    BY <1>5 DEF FoldedStatement
  <2>2. g = s
    BY <1>5 DEF Filled
  <2> QED
    BY <2>1, <2>2 DEF w
<1> QED
  BY <1>2, <1>3, <1>4, <1>5

\* What is kept is one of the readings.
LEMMA ReadingIs ==
    ASSUME NEW s \in Seq(Statement), NEW i \in DOMAIN s, ~Lost(s, i)
    PROVE  /\ Read(s, i) \in Readings
           /\ s[i].ends = "open" => i + 1 \in DOMAIN s
<1>1. DOMAIN s = 1..Len(s) /\ Len(s) \in Nat /\ i \in Nat \ {0} /\ s[i] \in Statement
  OBVIOUS
<1>2. s[i].ends = "open" => i # Len(s)
  BY <1>1, FailsLost DEF Fails
<1>3. s[i].ends = "open" => i + 1 \in DOMAIN s /\ s[i + 1] \in Statement
  BY <1>1, <1>2
<1> QED
  BY <1>1, <1>3, StatementsRead DEF Read

LEMMA KeptFolded ==
    ASSUME NEW s \in Seq(Statement), NEW kinds
    PROVE  Kept(Folded(s), kinds) = Folded(Kept(s, kinds))
<1> DEFINE f == Folded(s)
<1>1. /\ DOMAIN s = 1..Len(s) /\ Len(s) \in Nat
      /\ \A i \in DOMAIN s : s[i] \in Statement /\ s[i] \in Readings
  BY StatementsRead
<1>2. DOMAIN f = DOMAIN s /\ Len(f) = Len(s) /\ \A i \in DOMAIN s : f[i] = FoldedStatement(s[i])
  <2>1. f = [i \in 1..Len(s) |-> FoldedStatement(s[i])]
    BY <1>1 DEF Folded
  <2> QED
    BY <1>1, <2>1
<1> HIDE DEF f
<1>3. \A i \in DOMAIN s : /\ f[i].kind = s[i].kind /\ f[i].ends = s[i].ends
                          /\ First(f[i]) = First(s[i])
  <2> SUFFICES ASSUME NEW i \in DOMAIN s
               PROVE  /\ f[i].kind = s[i].kind /\ f[i].ends = s[i].ends
                      /\ First(f[i]) = First(s[i])
    OBVIOUS
  <2>1. f[i].kind = s[i].kind /\ f[i].ends = s[i].ends
    BY <1>1, <1>2, FoldedIs
  <2>2. s[i].kind = "broken" => f[i] = s[i]
    BY <1>2 DEF FoldedStatement
  <2> QED
    BY <2>1, <2>2 DEF First
<1>4. \A i \in DOMAIN s : (Beheaded(f, i) <=> Beheaded(s, i)) /\ (Fails(f, i) <=> Fails(s, i))
  <2> SUFFICES ASSUME NEW i \in DOMAIN s
               PROVE  (Beheaded(f, i) <=> Beheaded(s, i)) /\ (Fails(f, i) <=> Fails(s, i))
    OBVIOUS
  <2>1. i > 1 => i - 1 \in DOMAIN s
    BY <1>1
  <2>2. Beheaded(f, i) <=> Beheaded(s, i)
    BY <1>3, <2>1 DEF Beheaded
  <2> QED
    BY <1>2, <1>3, <2>2 DEF Fails
<1>5. ASSUME NEW i \in DOMAIN s PROVE Lost(f, i) <=> Lost(s, i)
  <2>1. \A j \in 1..i : j \in DOMAIN s /\ \A k \in j..(i - 1) : k \in DOMAIN s
    BY <1>1
  <2> QED
    BY <1>3, <1>4, <2>1 DEF Lost
<1>6. ASSUME NEW i \in DOMAIN s, ~Lost(s, i) PROVE Read(f, i) = FoldedStatement(Read(s, i))
  <2> DEFINE headed(u) == IF Beheaded(u, i) THEN Headless(u[i]) ELSE u[i]
  <2>1. headed(f) = FoldedStatement(headed(s)) /\ headed(s) \in Readings
    BY <1>1, <1>2, <1>4, HeadlessFolded, StatementsRead
  <2>2. s[i].ends = "open" => i + 1 \in DOMAIN s /\ s[i + 1] \in Statement
    BY <1>1, <1>6, ReadingIs
  <2>3. Read(s, i) = IF s[i].ends = "open" THEN Filled(headed(s), First(s[i + 1])) ELSE headed(s)
    BY DEF Read
  <2>4. Read(f, i) = IF f[i].ends = "open" THEN Filled(headed(f), First(f[i + 1])) ELSE headed(f)
    BY DEF Read
  <2> HIDE DEF headed
  <2> QED
    BY <1>3, <2>1, <2>2, <2>3, <2>4, FilledFolded
<1>7. \A i \in DOMAIN s : ~Lost(s, i) => /\ Read(f, i) = FoldedStatement(Read(s, i))
                                        /\ Read(f, i).kind = Read(s, i).kind
  BY <1>6, ReadingIs, FoldedIs
<1> DEFINE P == {i \in DOMAIN s : ~Lost(s, i) /\ Read(s, i).kind \in kinds}
           k == Kept(s, kinds)
<1>8. {i \in DOMAIN f : ~Lost(f, i) /\ Read(f, i).kind \in kinds} = P
  BY <1>2, <1>5, <1>7
<1>9. k = [i \in P |-> Read(s, i)]
  BY DEF Kept
<1>10. Kept(f, kinds) = [i \in P |-> Read(f, i)]
  BY <1>8 DEF Kept
<1>11. \A i \in P : i \in DOMAIN s /\ ~Lost(s, i)
  OBVIOUS
<1> HIDE DEF P, k
<1>12. DOMAIN k = P /\ \A i \in P : k[i] = Read(s, i) /\ Read(f, i) = FoldedStatement(k[i])
  BY <1>7, <1>9, <1>11
<1>13. Kept(f, kinds) = Folded(k)
  BY <1>10, <1>12 DEF Folded
<1> QED
  BY <1>13 DEF f, k

-----------------------------------------------------------------------------
(* The schema of a text in lower case.                                      *)

\* What a text has of statements.
LEMMA KeptOf ==
    ASSUME NEW s \in Seq(Statement), NEW kinds
    PROVE  /\ DOMAIN Kept(s, kinds) \subseteq 1..Len(s) /\ Len(s) \in Nat
           /\ \A i \in DOMAIN Kept(s, kinds) :
                 /\ Kept(s, kinds)[i] \in Readings
                 /\ Kept(s, kinds)[i].kind \in kinds
  BY ReadingIs DEF Kept

\* A part of a text.
PartOf(D, kinds) == /\ \E n \in Nat : DOMAIN D \subseteq 0..n
                    /\ \A i \in DOMAIN D : D[i] \in Readings /\ D[i].kind \in kinds

LEMMA KeptIsPart ==
    ASSUME NEW s \in Seq(Statement), NEW kinds PROVE PartOf(Kept(s, kinds), kinds)
<1>1. 1..Len(s) \subseteq 0..Len(s)
  OBVIOUS
<1> QED
  BY <1>1, KeptOf DEF PartOf

\* Where some statements of a part have a property, it has a first and a last
\* of them.
LEMMA FirstAndLast ==
    ASSUME NEW D, NEW kinds, PartOf(D, kinds), NEW S, S \subseteq DOMAIN D, S # {}
    PROVE  /\ Min(S) \in S /\ Min(S) \in DOMAIN D
           /\ Max(S) \in S /\ Max(S) \in DOMAIN D
<1>1. PICK n \in Nat : DOMAIN D \subseteq 0..n
  BY DEF PartOf
<1>2. S \in SUBSET (0..n) /\ S \in SUBSET Nat
  BY <1>1
<1> QED
  BY <1>2, MinIsIn, MaxIsIn

LEMMA FoldedDefine ==
    ASSUME NEW D, PartOf(D, {"define"})
    PROVE  /\ DOMAIN Folded(D) = DOMAIN D
           /\ \A i \in DOMAIN D :
                 /\ Folded(D)[i].name = Lower(D[i].name)
                 /\ Folded(D)[i].parent = Lower(D[i].parent)
                 /\ Folded(D)[i].aka = IF D[i].aka = None THEN None ELSE Lower(D[i].aka)
                 /\ Folded(D)[i].attrs = FoldAttrs(D[i].attrs) /\ Valued(D[i].attrs)
  BY FoldedIs DEF Folded, PartOf

LEMMA FoldedNames ==
    ASSUME NEW D, PartOf(D, {"define"})
    PROVE  /\ Names(Folded(D)) = {Lower(n) : n \in Names(D)}
           /\ Classes(Folded(D)) = Classes(D)
           /\ NoDuplicate(D) => NoDuplicate(Folded(D))
<1> DEFINE E == Folded(D)
<1>1. DOMAIN E = DOMAIN D /\ \A i \in DOMAIN D : E[i].name = Lower(D[i].name)
  BY FoldedDefine
<1> HIDE DEF E
<1>2. Names(E) = {Lower(n) : n \in Names(D)}
  BY <1>1 DEF Names
<1>3. {Lower(n) : n \in Names(E)} = {Lower(n) : n \in Names(D)}
  BY <1>2, LowerTwice
<1>4. Classes(E) = Classes(D)
  BY <1>3 DEF Classes
<1>5. NoDuplicate(D) => NoDuplicate(E)
  BY <1>2, LowerTwice DEF NoDuplicate
<1> QED
  BY <1>2, <1>4, <1>5 DEF E

LEMMA FoldedPlace ==
    ASSUME NEW D, PartOf(D, {"define"}), NoDuplicate(D), NEW n \in Names(D)
    PROVE  /\ Place(Folded(D), Lower(n)) = Place(D, n)
           /\ Place(D, n) \in DOMAIN D /\ D[Place(D, n)].name = n
<1> DEFINE E == Folded(D)
           S == {i \in DOMAIN D : D[i].name = n}
<1>1. DOMAIN E = DOMAIN D /\ \A i \in DOMAIN D : E[i].name = Lower(D[i].name)
  BY FoldedDefine
<1> HIDE DEF E
<1>2. \A i \in DOMAIN D : D[i].name \in Names(D)
  BY DEF Names
<1>3. \A i \in DOMAIN D : E[i].name = Lower(n) <=> D[i].name = n
  BY <1>1, <1>2 DEF NoDuplicate
<1>4. {i \in DOMAIN E : E[i].name = Lower(n)} = S
  BY <1>1, <1>3
<1>5. S \subseteq DOMAIN D /\ S # {}
  BY DEF Names
<1>6. Min(S) \in S
  BY <1>5, FirstAndLast
<1> QED
  BY <1>4, <1>6 DEF Place, E

LEMMA FoldedAdding ==
    ASSUME NEW D, PartOf(D, {"define"}), NoDuplicate(D), NEW n \in Names(D), NEW k
    PROVE  Adding(Folded(D), Lower(n), k) = Adding(D, n, k)
<1> DEFINE E == Folded(D)
<1>1. /\ DOMAIN E = DOMAIN D
      /\ \A i \in DOMAIN D : /\ E[i].name = Lower(D[i].name) /\ E[i].parent = Lower(D[i].parent)
                             /\ E[i].attrs = FoldAttrs(D[i].attrs)
  BY FoldedDefine
<1>2. Place(E, Lower(n)) = Place(D, n)
  BY FoldedPlace
<1> HIDE DEF E
<1>3. \A i \in DOMAIN D : D[i].name \in Names(D)
  BY DEF Names
<1>4. \A i \in DOMAIN D : E[i].name = Lower(n) <=> D[i].name = n
  BY <1>1, <1>3 DEF NoDuplicate
<1>5. \A i \in DOMAIN D : DOMAIN E[i].attrs = DOMAIN D[i].attrs /\ Lower(E[i].parent) = Lower(D[i].parent)
  BY <1>1, LowerTwice DEF FoldAttrs
<1>6. Adding(E, Lower(n), k) = Adding(D, n, k)
  BY <1>1, <1>2, <1>4, <1>5 DEF Adding
<1> QED
  BY <1>6 DEF E
LEMMA FoldList ==
    ASSUME NEW k, NEW words
    PROVE  FoldValue(k, List(words)) =
              List(IF k = "path" THEN words ELSE {Lower(w) : w \in words})
  BY DEF FoldValue, List

\* What the statements of a class merge to is folded to the same value.
LEMMA FoldedMerged ==
    ASSUME NEW D, PartOf(D, {"define"}), NoDuplicate(D), NEW n \in Names(D), NEW k,
           Adding(D, n, k) # {}
    PROVE  FoldValue(k, Merged(Folded(D), Lower(n), k)) = FoldValue(k, Merged(D, n, k))
<1> DEFINE E == Folded(D)
           A == Adding(D, n, k)
           first == D[Min(A)].attrs[k]
           V == {D[i].attrs[k] : i \in A}
           W == {E[i].attrs[k] : i \in A}
           words == (UNION {v.of : v \in {w \in V : w.list}}) \ {None}
           folded == (UNION {v.of : v \in {w \in W : w.list}}) \ {None}
<1>1. Adding(E, Lower(n), k) = A
  BY FoldedAdding
<1>2. A \subseteq DOMAIN D /\ \A i \in A : k \in DOMAIN D[i].attrs
  BY DEF Adding
<1>3. ASSUME NEW i \in A
      PROVE  /\ DOMAIN D[i].attrs[k] = {"list", "of"}
             /\ E[i].attrs[k] = FoldValue(k, D[i].attrs[k])
  <2>1. E[i].attrs = FoldAttrs(D[i].attrs) /\ Valued(D[i].attrs)
    BY <1>2, FoldedDefine
  <2> QED
    BY <1>2, <2>1 DEF FoldAttrs, Valued
<1>4. Min(A) \in A
  BY <1>2, FirstAndLast
<1>5. Merged(D, n, k) = IF first.list /\ words # {} THEN List(words) ELSE first
  BY DEF Merged
<1>6. Merged(E, Lower(n), k) = IF E[Min(A)].attrs[k].list /\ folded # {}
                               THEN List(folded) ELSE E[Min(A)].attrs[k]
  BY <1>1 DEF Merged
<1>7. DOMAIN first = {"list", "of"} /\ E[Min(A)].attrs[k] = FoldValue(k, first)
  BY <1>3, <1>4
<1>8. FoldValue(k, first).list = first.list
  BY <1>7, FoldValueIs
<1>9. folded = IF k = "path" THEN words ELSE {Lower(w) : w \in words}
  <2>1. \A i \in A : /\ E[i].attrs[k].list = D[i].attrs[k].list
                     /\ E[i].attrs[k].of = IF k = "path" THEN D[i].attrs[k].of
                                           ELSE {Lower(w) : w \in D[i].attrs[k].of}
    <3> HIDE DEF E, A
    <3> TAKE i \in A
    <3> DEFINE v == D[i].attrs[k]
    <3>1. DOMAIN v = {"list", "of"} /\ E[i].attrs[k] = FoldValue(k, v)
      BY <1>3
    <3> HIDE DEF v
    <3>2. /\ FoldValue(k, v).list = v.list
          /\ FoldValue(k, v).of = IF k = "path" THEN v.of ELSE {Lower(w) : w \in v.of}
      BY <3>1, FoldValueIs
    <3> QED
      BY <3>1, <3>2 DEF v
  <2>2. words = {w \in UNION {D[i].attrs[k].of : i \in A} :
                    /\ w # None
                    /\ \E i \in A : D[i].attrs[k].list /\ w \in D[i].attrs[k].of}
    OBVIOUS
  <2>3. folded = {w \in UNION {E[i].attrs[k].of : i \in A} :
                    /\ w # None
                    /\ \E i \in A : E[i].attrs[k].list /\ w \in E[i].attrs[k].of}
    OBVIOUS
  <2> HIDE DEF words, folded, E, A
  <2>4. \A w : w \in words <=> /\ w # None
                              /\ \E i \in A : D[i].attrs[k].list /\ w \in D[i].attrs[k].of
    BY <2>2
  <2>5. \A w : w \in folded <=> /\ w # None
                               /\ \E i \in A : E[i].attrs[k].list /\ w \in E[i].attrs[k].of
    BY <2>3
  <2>6. CASE k = "path"
    BY <2>1, <2>4, <2>5, <2>6
  <2>7. CASE k # "path"
    <3>1. \A w : w \in folded <=>
                    /\ w # None
                    /\ \E i \in A : D[i].attrs[k].list /\ \E x \in D[i].attrs[k].of : w = Lower(x)
      BY <2>1, <2>5, <2>7
    <3>2. \A x : Lower(x) = None <=> x = None
      BY NoneIsLower
    <3> QED
      BY <2>4, <2>7, <3>1, <3>2
  <2> QED
    BY <2>6, <2>7
<1> HIDE DEF first, words, folded, E, A
<1>10. CASE first.list /\ words # {}
  <2>1. FoldValue(k, List(folded)) = FoldValue(k, List(words))
    <3>1. CASE k = "path"
      BY <1>9, <3>1
    <3>2. CASE k # "path"
      <4>1. {Lower(w) : w \in folded} = {Lower(w) : w \in words}
        BY <1>9, <3>2, LowerSetTwice
      <4> QED
        BY <3>2, <4>1, FoldList
    <3> QED
      BY <3>1, <3>2
  <2>2. folded # {}
    BY <1>9, <1>10
  <2> QED
    BY <1>5, <1>6, <1>7, <1>8, <1>10, <2>1, <2>2 DEF E
<1>11. CASE ~(first.list /\ words # {})
  <2>1. words = {} => folded = {}
    BY <1>9
  <2> QED
    BY <1>5, <1>6, <1>7, <1>8, <1>11, <2>1, FoldValueTwice DEF E
<1> QED
  BY <1>10, <1>11

LEMMA FoldedOwn ==
    ASSUME NEW D, PartOf(D, {"define"}), NoDuplicate(D), NEW n \in Names(D)
    PROVE  FoldAttrs(MergedAttrs(Folded(D), Lower(n))) = FoldAttrs(MergedAttrs(D, n))
<1> DEFINE E == Folded(D)
           K == {j \in UNION {DOMAIN D[i].attrs : i \in DOMAIN D} : Adding(D, n, j) # {}}
<1>1. \A k : Adding(E, Lower(n), k) = Adding(D, n, k)
  BY FoldedAdding
<1>2. DOMAIN E = DOMAIN D /\ \A i \in DOMAIN D : DOMAIN E[i].attrs = DOMAIN D[i].attrs
  <2>1. DOMAIN E = DOMAIN D /\ \A i \in DOMAIN D : E[i].attrs = FoldAttrs(D[i].attrs)
    BY FoldedDefine
  <2>2. \A attrs : DOMAIN FoldAttrs(attrs) = DOMAIN attrs
    BY DEF FoldAttrs
  <2> HIDE DEF E
  <2> QED
    BY <2>1, <2>2
<1>3. \A k : Adding(D, n, k) # {} =>
                FoldValue(k, Merged(E, Lower(n), k)) = FoldValue(k, Merged(D, n, k))
  BY FoldedMerged
<1> HIDE DEF E
<1>4. {j \in UNION {DOMAIN E[i].attrs : i \in DOMAIN E} : Adding(E, Lower(n), j) # {}} = K
  BY <1>1, <1>2
<1>5. MergedAttrs(E, Lower(n)) = [k \in K |-> Merged(E, Lower(n), k)]
  BY <1>4 DEF MergedAttrs
<1>6. MergedAttrs(D, n) = [k \in K |-> Merged(D, n, k)]
  BY DEF MergedAttrs
<1>7. \A k \in K : Adding(D, n, k) # {}
  OBVIOUS
<1> HIDE DEF K
<1>8. FoldAttrs(MergedAttrs(E, Lower(n))) = FoldAttrs(MergedAttrs(D, n))
  BY <1>3, <1>5, <1>6, <1>7 DEF FoldAttrs
<1> QED
  BY <1>8 DEF E
\* The class that a class of the text was written as.
LEMMA WrittenIs ==
    ASSUME NEW D, NoDuplicate(D), NEW c \in Classes(D) \ Builtin
    PROVE  Written(D, c) \in Names(D) /\ Lower(Written(D, c)) = c
  BY DEF Written, Classes

LEMMA FoldedWritten ==
    ASSUME NEW D, PartOf(D, {"define"}), NoDuplicate(D), NEW c \in Classes(D) \ Builtin
    PROVE  Written(Folded(D), c) = Lower(Written(D, c))
<1>1. NoDuplicate(Folded(D)) /\ c \in Classes(Folded(D)) \ Builtin
  BY FoldedNames
<1>2. PICK n \in Names(D) : Written(Folded(D), c) = Lower(n)
  BY <1>1, WrittenIs, FoldedNames
<1>3. Lower(Lower(n)) = c
  BY <1>1, <1>2, WrittenIs
<1>4. Lower(Written(D, c)) = c
  BY WrittenIs
<1> QED
  BY <1>2, <1>3, <1>4, LowerTwice

\* The aliases, by the names that have one and the places of these.
LEMMA FoldedAka ==
    ASSUME NEW D, PartOf(D, {"define"}), NoDuplicate(D)
    PROVE  Aka(Folded(D)) = Aka(D)
<1> DEFINE alias(F, n) == Lower(Maker(F, n).aka)
           given(F) == {n \in Names(F) : /\ Maker(F, n).aka # None
                                         /\ alias(F, n) \notin Classes(F)}
           places(F, a) == {Place(F, n) : n \in {m \in given(F) : alias(F, m) = a}}
           E == Folded(D)
<1>1. \A F : Aka(F) = [a \in {alias(F, n) : n \in given(F)} |-> Lower(F[Max(places(F, a))].name)]
  BY DEF Aka
<1>2. ASSUME NEW n \in Names(D)
      PROVE  /\ Place(E, Lower(n)) = Place(D, n) /\ Place(D, n) \in DOMAIN D
             /\ alias(E, Lower(n)) = IF Maker(D, n).aka = None THEN Lower(None) ELSE alias(D, n)
             /\ Maker(E, Lower(n)).aka = None <=> Maker(D, n).aka = None
  <2>1. Place(E, Lower(n)) = Place(D, n) /\ Place(D, n) \in DOMAIN D
    BY FoldedPlace
  <2>2. Maker(E, Lower(n)).aka = IF Maker(D, n).aka = None THEN None ELSE Lower(Maker(D, n).aka)
    BY <2>1, FoldedDefine DEF Maker
  <2>3. \A w : w # None => Lower(w) # None
    BY FoldingAssumption DEF Lower
  <2> HIDE DEF E
  <2> QED
    BY <2>1, <2>2, <2>3, LowerTwice
<1>3. Names(E) = {Lower(n) : n \in Names(D)} /\ Classes(E) = Classes(D)
  BY FoldedNames
<1>4. \A i \in DOMAIN D : Lower(E[i].name) = Lower(D[i].name)
  BY FoldedDefine, LowerTwice
<1> DEFINE G == given(D)
           H == given(E)
<1>5. H = {Lower(n) : n \in G}
  <2> HIDE DEF E
  <2> QED
    BY <1>2, <1>3
<1>6. \A n \in G : n \in Names(D) /\ alias(E, Lower(n)) = alias(D, n)
  <2> HIDE DEF E
  <2> QED
    BY <1>2
<1> DEFINE al(n) == alias(D, n)
           bl(n) == alias(E, n)
<1>7. {bl(m) : m \in H} = {al(n) : n \in G}
  <2> HIDE DEF G, H, E, alias
  <2> QED
    BY <1>5, <1>6
<1>8. ASSUME NEW a PROVE places(E, a) = places(D, a)
  <2> DEFINE pd == {Place(D, n) : n \in {m \in G : al(m) = a}}
             pe == {Place(E, n) : n \in {m \in H : bl(m) = a}}
  <2>1. pe = pd
    <3> HIDE DEF G, H, E, alias
    <3> QED
      BY <1>2, <1>5, <1>6
  <2> QED
    BY <2>1
<1>9. ASSUME NEW a \in {al(n) : n \in G} PROVE Max(places(D, a)) \in DOMAIN D
  <2> DEFINE P == places(D, a)
  <2>1. P # {}
    OBVIOUS
  <2>2. P \subseteq DOMAIN D
    BY <1>2
  <2> HIDE DEF P
  <2>3. Max(P) \in DOMAIN D
    BY <2>1, <2>2, FirstAndLast
  <2> QED
    BY <2>3 DEF P
<1> DEFINE S == {al(n) : n \in G}
           top(F, a) == Max(places(F, a))
<1>10. Aka(D) = [a \in S |-> Lower(D[top(D, a)].name)]
  BY <1>1
<1>11. Aka(E) = [a \in {bl(n) : n \in H} |-> Lower(E[top(E, a)].name)]
  BY <1>1
<1>12. \A a \in S : top(E, a) = top(D, a) /\ top(D, a) \in DOMAIN D
  BY <1>8, <1>9
<1>13. {bl(n) : n \in H} = S
  BY <1>7
<1> HIDE DEF top, S, bl, al, H, G, E
<1>14. Aka(E) = Aka(D)
  BY <1>4, <1>10, <1>11, <1>12, <1>13
<1> QED
  BY <1>14 DEF E

\* A class's parent and its own attributes.
LEMMA FoldedSchema ==
    ASSUME NEW D, PartOf(D, {"define"}), NoDuplicate(D)
    PROVE  LET E == Folded(D) IN
           /\ Valid(E) <=> Valid(D)
           /\ Parent(E) = Parent(D) /\ Classes(E) = Classes(D) /\ Aka(E) = Aka(D)
           /\ \A line : Fixed(E, line) = Fixed(D, line)
<1> DEFINE E == Folded(D)
<1>1. NoDuplicate(E) /\ Classes(E) = Classes(D)
  BY FoldedNames
<1>2. ASSUME NEW c \in Classes(D) \ Builtin
      PROVE  /\ ClassName(Made(E, c).parent) = ClassName(Made(D, c).parent)
             /\ Own(E, c) = Own(D, c)
  <2> DEFINE n == Written(D, c)
  <2>1. n \in Names(D) /\ Written(E, c) = Lower(n)
    BY WrittenIs, FoldedWritten
  <2> HIDE DEF n
  <2>2. Place(E, Lower(n)) = Place(D, n) /\ Place(D, n) \in DOMAIN D
    BY <2>1, FoldedPlace
  <2>3. Maker(E, Lower(n)).parent = Lower(Maker(D, n).parent)
    BY <2>2, FoldedDefine DEF Maker
  <2>4. FoldAttrs(MergedAttrs(E, Lower(n))) = FoldAttrs(MergedAttrs(D, n))
    BY <2>1, FoldedOwn
  <2> HIDE DEF E
  <2> QED
    BY <2>1, <2>3, <2>4, ClassNameTwice DEF Made, Own, n
<1>3. Aka(E) = Aka(D)
  BY FoldedAka
<1> HIDE DEF E
<1>4. /\ Valid(E) <=> Valid(D)
      /\ Parent(E) = Parent(D)
      /\ \A line : Fixed(E, line) = Fixed(D, line)
  BY <1>1, <1>2, SameSchema
<1> QED
  BY <1>1, <1>3, <1>4 DEF E
\* The declared entities, by the places that count.
LEMMA FoldedEntities ==
    ASSUME NEW D, PartOf(D, {"declare"}), NEW classes
    PROVE  Entities(Folded(D), classes) = Entities(D, classes)
<1> DEFINE E == Folded(D)
           places(F, n) == {i \in DOMAIN F : Lower(F[i].name) = n}
           class(w) == IF w \in classes THEN w ELSE Alias(w)
           entity(s) == [class |-> class(Lower(s.class)), attrs |-> FoldAttrs(s.attrs)]
           names(F) == {Lower(F[i].name) : i \in DOMAIN F}
<1>1. \A F : Entities(F, classes) = [n \in names(F) |-> entity(F[Max(places(F, n))])]
  BY DEF Entities
<1>2. DOMAIN E = DOMAIN D
  BY DEF Folded
<1>3. ASSUME NEW i \in DOMAIN D
      PROVE  /\ Lower(E[i].name) = Lower(D[i].name)
             /\ entity(E[i]) = entity(D[i])
  <2>1. /\ E[i].name = Lower(D[i].name) /\ E[i].class = Lower(D[i].class)
        /\ E[i].attrs = FoldAttrs(D[i].attrs) /\ Valued(D[i].attrs)
    BY FoldedIs DEF Folded, PartOf
  <2> HIDE DEF E, class
  <2> QED
    BY <2>1, LowerTwice, FoldAttrsTwice
<1>4. names(E) = names(D) /\ \A n : places(E, n) = places(D, n)
  <2> HIDE DEF E
  <2> QED
    BY <1>2, <1>3
<1>5. ASSUME NEW n \in names(D) PROVE Max(places(D, n)) \in DOMAIN D
  <2> DEFINE P == places(D, n)
  <2>1. P # {} /\ P \subseteq DOMAIN D
    OBVIOUS
  <2> HIDE DEF P
  <2>2. Max(P) \in DOMAIN D
    BY <2>1, FirstAndLast
  <2> QED
    BY <2>2 DEF P
<1> HIDE DEF E, places, names, entity
<1>6. Entities(E, classes) = Entities(D, classes)
  BY <1>1, <1>3, <1>4, <1>5
<1> QED
  BY <1>6 DEF E

LEMMA FoldedRules ==
    ASSUME NEW R, PartOf(R, {"allow", "never"})
    PROVE  /\ FoldRules(Folded(R)) = FoldRules(R)
           /\ ConditionsCompile(Folded(R)) <=> ConditionsCompile(R)
<1> DEFINE F == Folded(R)
<1>1. DOMAIN F = DOMAIN R
  BY DEF Folded
<1>2. ASSUME NEW i \in DOMAIN R
      PROVE  /\ FoldRule(F[i]) = FoldRule(R[i])
             /\ F[i].kind = R[i].kind /\ F[i].condition = R[i].condition
  BY FoldedIs, FoldedRuleIs DEF Folded, PartOf
<1> HIDE DEF F
<1>3. FoldRules(F) = FoldRules(R)
  BY <1>1, <1>2 DEF FoldRules
<1>4. ConditionsCompile(F) <=> ConditionsCompile(R)
  BY <1>1, <1>2 DEF ConditionsCompile
<1> QED
  BY <1>3, <1>4 DEF F

\* A text that compiles, and the text in lower case, compile to one rule set.
LEMMA FoldedCompiles ==
    ASSUME NEW s \in Seq(Statement), compile_rules(s) # CompileError
    PROVE  compile_rules(Folded(s)) = compile_rules(s)
<1> DEFINE D == Kept(s, {"define"})
           d == Kept(s, {"declare"})
           R == Kept(s, {"allow", "never"})
<1>1. PartOf(D, {"define"}) /\ PartOf(d, {"declare"}) /\ PartOf(R, {"allow", "never"})
  BY KeptIsPart
<1>2. /\ compile_rules(s) = Compiled(D, d, R)
      /\ compile_rules(Folded(s)) = Compiled(Folded(D), Folded(d), Folded(R))
  BY KeptFolded DEF compile_rules
<1> HIDE DEF D, d, R
<1>3. Valid(D)
  BY <1>2 DEF Compiled
<1>4. NoDuplicate(D)
  BY <1>3 DEF Valid
<1>5. /\ Valid(Folded(D)) <=> Valid(D)
      /\ Definitions(Folded(D), Folded(d)) = Definitions(D, d)
  BY <1>1, <1>4, FoldedSchema, FoldedEntities, SameDefinitions
<1>6. FoldRules(Folded(R)) = FoldRules(R) /\ (ConditionsCompile(Folded(R)) <=> ConditionsCompile(R))
  BY <1>1, FoldedRules
<1> QED
  BY <1>2, <1>5, <1>6 DEF Compiled

\* A call, and the call with its names in lower case, are one request.
LEMMA FoldedCall ==
    ASSUME NEW defs, NEW call \in Call
    PROVE  Request(defs, InLower(call)) = Request(defs, call)
<1> DEFINE f == InLower(call)
<1>1. /\ {"user", "agent", "service", "verb", "tool", "args", "roles", "context"} \subseteq DOMAIN call
      /\ Name(Lower(call.user)) = Name(call.user) /\ Name(Lower(call.agent)) = Name(call.agent)
      /\ Name(Lower(call.service)) = Name(call.service)
      /\ Valued(call.args)
  BY FoldingAssumption DEF Name, Valued
<1>2. /\ f.user = Lower(call.user) /\ f.agent = Lower(call.agent) /\ f.tool = Lower(call.tool)
      /\ f.service = Lower(call.service) /\ f.verb = call.verb
      /\ f.args = FoldAttrs(call.args) /\ f.context = call.context
  BY <1>1 DEF InLower
<1>3. f.roles = IF call.roles = None THEN None ELSE FoldValue("role", call.roles)
  BY <1>1, Zenon DEF InLower
<1> HIDE DEF f
<1>4. CallAttrs(f) = CallAttrs(call)
  BY <1>1, <1>2, LowerTwice, FoldAttrsTwice DEF CallAttrs
<1>5. RoleAttrs(f) = RoleAttrs(call)
  <2>1. CASE call.roles = None
    BY <1>3, <2>1 DEF RoleAttrs
  <2>2. CASE call.roles # None
    <3> DEFINE v == call.roles
               u == FoldValue("role", v)
    <3>1. DOMAIN v = {"list", "of"} /\ u # None /\ f.roles = u
      BY <1>3, <2>2, FoldingAssumption
    <3>2. FoldValue("role", u) = u /\ FoldValue("roles", u) = FoldValue("role", u)
      BY <3>1, FoldValueTwice DEF FoldValue
    <3>3. FoldValue("roles", v) = u
      BY DEF FoldValue
    <3> HIDE DEF u
    <3> QED
      BY <2>2, <3>1, <3>2, <3>3 DEF RoleAttrs, FoldAttrs, u
  <2> QED
    BY <2>1, <2>2
<1>6. /\ Subject(defs, f) = Subject(defs, call) /\ Accessor(defs, f) = Accessor(defs, call)
      /\ Server(defs, f) = Server(defs, call)
  BY <1>1, <1>2, <1>5, NoneIsLower DEF Subject, Accessor, Server
<1>7. Request(defs, f) = Request(defs, call)
  BY <1>2, <1>4, <1>6 DEF Request
<1> QED
  BY <1>7 DEF f

\* Whatever the text and the call: in lower case they are decided alike
\* (checker.py 82-152, 406-425).
THEOREM CaseInsensitiveHolds == Spec => []CaseInsensitive
<1>1. CompiledText => CaseInsensitive
  <2> SUFFICES ASSUME CompiledText, Ok, NEW call \in Call
               PROVE  allowed(crs, call) <=>
                      allowed(compile_rules([i \in DOMAIN text |-> FoldedStatement(text[i])]),
                              InLower(call))
    BY DEF CaseInsensitive
  <2>1. compile_rules([i \in DOMAIN text |-> FoldedStatement(text[i])]) = crs
    BY FoldedCompiles DEF CompiledText, Ok, Folded
  <2>2. \A c : check(c, InLower(call)) = check(c, call)
    BY FoldedCall DEF check
  <2> QED
    BY <2>1, <2>2 DEF allowed
<1> QED
  BY <1>1, CompiledTextHolds, PTL
-----------------------------------------------------------------------------
(* The order of a text.                                                     *)

\* Two parts with the same statements, whatever their places.
Alike(D, E) == /\ \A i \in DOMAIN D : \E j \in DOMAIN E : E[j] = D[i]
               /\ \A j \in DOMAIN E : \E i \in DOMAIN D : D[i] = E[j]

\* No two statements of a part give one name.
Distinct(D) == \A i, j \in DOMAIN D : Lower(D[i].name) = Lower(D[j].name) => i = j

DistinctAka(D) == \A i, j \in DOMAIN D :
                     /\ D[i].aka # None /\ D[j].aka # None
                     /\ Lower(D[i].aka) = Lower(D[j].aka)
                     => i = j

LEMMA TheOnly ==
    ASSUME NEW D, NEW kinds, PartOf(D, kinds), NEW i \in DOMAIN D
    PROVE  Min({i}) = i /\ Max({i}) = i
  BY FirstAndLast

\* The attributes of a class that one statement defines.
OneMerged(s, k) ==
    LET words == (UNION {s.attrs[k].of}) \ {None} IN
    IF s.attrs[k].list /\ words # {} THEN List(words) ELSE s.attrs[k]

LEMMA OnlyDefine ==
    ASSUME NEW D, PartOf(D, {"define"}), Distinct(D), NEW i \in DOMAIN D
    PROVE  /\ D[i].name \in Names(D)
           /\ Place(D, D[i].name) = i /\ Maker(D, D[i].name) = D[i]
           /\ MergedAttrs(D, D[i].name) = [k \in DOMAIN D[i].attrs |-> OneMerged(D[i], k)]
<1> DEFINE n == D[i].name
<1>1. Place(D, n) = i
  <2>1. {j \in DOMAIN D : D[j].name = n} = {i}
    BY DEF Distinct
  <2> QED
    BY <2>1, TheOnly DEF Place
<1>2. \A k : Adding(D, n, k) = IF k \in DOMAIN D[i].attrs THEN {i} ELSE {}
  <2>1. \A j \in DOMAIN D : D[j].name = n <=> j = i
    BY DEF Distinct
  <2> QED
    BY <1>1, <2>1 DEF Adding
<1>3. ASSUME NEW k \in DOMAIN D[i].attrs PROVE Merged(D, n, k) = OneMerged(D[i], k)
  <2> DEFINE v == D[i].attrs[k]
             values == {D[j].attrs[k] : j \in Adding(D, n, k)}
             first == D[Min(Adding(D, n, k))].attrs[k]
  <2>1. values = {v} /\ first = v
    BY <1>2, TheOnly
  <2>2. Merged(D, n, k) =
           LET words == (UNION {w.of : w \in {x \in values : x.list}}) \ {None}
           IN IF first.list /\ words # {} THEN List(words) ELSE first
    BY DEF Merged
  <2> HIDE DEF v, values, first
  <2>3. CASE v.list
    <3>1. {x \in values : x.list} = {v}
      BY <2>1, <2>3
    <3>2. {w.of : w \in {x \in values : x.list}} = {v.of}
      BY <3>1
    <3> QED
      BY <2>1, <2>2, <2>3, <3>2 DEF OneMerged, v
  <2>4. CASE ~v.list
    BY <2>1, <2>2, <2>4 DEF OneMerged, v
  <2> QED
    BY <2>3, <2>4
<1>4. {j \in UNION {DOMAIN D[l].attrs : l \in DOMAIN D} : Adding(D, n, j) # {}} = DOMAIN D[i].attrs
  BY <1>2
<1>5. MergedAttrs(D, n) = [k \in DOMAIN D[i].attrs |-> OneMerged(D[i], k)]
  BY <1>3, <1>4 DEF MergedAttrs
<1> QED
  BY <1>1, <1>5 DEF Names, Maker

\* The names, and what makes each class, are those of the statements.
LEMMA AlikeNames ==
    ASSUME NEW D, NEW E, PartOf(D, {"define"}), PartOf(E, {"define"}),
           Distinct(D), Distinct(E), Alike(D, E)
    PROVE  /\ Names(E) = Names(D) /\ Classes(E) = Classes(D)
           /\ NoDuplicate(E) <=> NoDuplicate(D)
           /\ \A n \in Names(D) : /\ Maker(E, n) = Maker(D, n)
                                  /\ MergedAttrs(E, n) = MergedAttrs(D, n)
<1>1. Names(E) = Names(D)
  BY DEF Names, Alike
<1>2. ASSUME NEW n \in Names(D)
      PROVE  Maker(E, n) = Maker(D, n) /\ MergedAttrs(E, n) = MergedAttrs(D, n)
  <2>1. PICK i \in DOMAIN D : D[i].name = n
    BY DEF Names
  <2>2. PICK j \in DOMAIN E : E[j] = D[i]
    BY DEF Alike
  <2>3. /\ Maker(D, D[i].name) = D[i]
        /\ MergedAttrs(D, D[i].name) = [k \in DOMAIN D[i].attrs |-> OneMerged(D[i], k)]
    BY OnlyDefine, Zenon
  <2>4. /\ Maker(E, E[j].name) = E[j]
        /\ MergedAttrs(E, E[j].name) = [k \in DOMAIN E[j].attrs |-> OneMerged(E[j], k)]
    BY OnlyDefine, Zenon
  <2> QED
    BY <2>1, <2>2, <2>3, <2>4
<1> QED
  BY <1>1, <1>2 DEF Classes, NoDuplicate

LEMMA AlikeSchema ==
    ASSUME NEW D, NEW E, PartOf(D, {"define"}), PartOf(E, {"define"}),
           Distinct(D), Distinct(E), Alike(D, E), NoDuplicate(D)
    PROVE  /\ Valid(E) <=> Valid(D)
           /\ Parent(E) = Parent(D)
           /\ \A line : Fixed(E, line) = Fixed(D, line)
<1>1. /\ Names(E) = Names(D) /\ Classes(E) = Classes(D) /\ NoDuplicate(E)
      /\ \A n \in Names(D) : /\ Maker(E, n) = Maker(D, n)
                             /\ MergedAttrs(E, n) = MergedAttrs(D, n)
  BY AlikeNames
<1>2. \A c : Written(E, c) = Written(D, c)
  BY <1>1 DEF Written
<1>3. \A c \in Classes(D) \ Builtin : Written(D, c) \in Names(D)
  BY WrittenIs
<1>4. \A c \in Classes(D) \ Builtin : Made(E, c) = Made(D, c) /\ Own(E, c) = Own(D, c)
  BY <1>1, <1>2, <1>3 DEF Made, Own
<1> QED
  BY <1>1, <1>4, SameSchema
\* An alias that no two classes have means the class that has it.
LEMMA OnlyAka ==
    ASSUME NEW D, PartOf(D, {"define"}), Distinct(D), DistinctAka(D)
    PROVE  LET alias(n) == Lower(Maker(D, n).aka)
               given == {n \in Names(D) : /\ Maker(D, n).aka # None
                                          /\ alias(n) \notin Classes(D)}
           IN Aka(D) = [a \in {alias(n) : n \in given} |->
                           Lower(CHOOSE n \in given : alias(n) = a)]
<1> DEFINE alias(n) == Lower(Maker(D, n).aka)
           given == {n \in Names(D) : /\ Maker(D, n).aka # None
                                      /\ alias(n) \notin Classes(D)}
           places(a) == {Place(D, n) : n \in {m \in given : alias(m) = a}}
           the(a) == CHOOSE n \in given : alias(n) = a
<1>1. Aka(D) = [a \in {alias(n) : n \in given} |-> Lower(D[Max(places(a))].name)]
  BY DEF Aka
<1>2. ASSUME NEW n \in Names(D)
      PROVE  /\ Place(D, n) \in DOMAIN D /\ D[Place(D, n)].name = n
             /\ Maker(D, n) = D[Place(D, n)]
  <2>1. PICK i \in DOMAIN D : D[i].name = n
    BY DEF Names
  <2> QED
    BY <2>1, OnlyDefine
<1>3. ASSUME NEW n \in given, NEW m \in given, alias(n) = alias(m) PROVE n = m
  <2>1. Place(D, n) = Place(D, m)
    BY <1>2, <1>3 DEF DistinctAka
  <2> QED
    BY <1>2, <2>1
<1>4. ASSUME NEW a \in {alias(n) : n \in given} PROVE Lower(D[Max(places(a))].name) = Lower(the(a))
  <2>1. the(a) \in given /\ alias(the(a)) = a
    OBVIOUS
  <2>2. {m \in given : alias(m) = a} = {the(a)}
    <3> HIDE DEF given, alias, the
    <3> QED
      BY <1>3, <2>1
  <2>3. places(a) = {Place(D, the(a))}
    BY <2>2
  <2>4. Place(D, the(a)) \in DOMAIN D /\ D[Place(D, the(a))].name = the(a)
    BY <1>2, <2>1
  <2> HIDE DEF places, the
  <2> QED
    BY <2>3, <2>4, TheOnly
<1> HIDE DEF places, the, alias, given
<1>5. Aka(D) = [a \in {alias(n) : n \in given} |-> Lower(the(a))]
  BY <1>1, <1>4
<1> QED
  BY <1>5 DEF the, alias, given

LEMMA AlikeAka ==
    ASSUME NEW D, NEW E, PartOf(D, {"define"}), PartOf(E, {"define"}), Distinct(D), Distinct(E),
           DistinctAka(D), DistinctAka(E), Alike(D, E)
    PROVE  Aka(E) = Aka(D)
<1> DEFINE alias(F, n) == Lower(Maker(F, n).aka)
           given(F) == {n \in Names(F) : /\ Maker(F, n).aka # None
                                         /\ alias(F, n) \notin Classes(F)}
           G == given(D)
           H == given(E)
           al(n) == alias(D, n)
           bl(n) == alias(E, n)
           ofD(a) == CHOOSE n \in G : al(n) = a
           ofE(a) == CHOOSE n \in H : bl(n) = a
<1>1. /\ Names(E) = Names(D) /\ Classes(E) = Classes(D)
      /\ \A n \in Names(D) : Maker(E, n) = Maker(D, n)
  BY AlikeNames
<1>2. Aka(D) = [a \in {al(n) : n \in G} |-> Lower(ofD(a))]
  BY OnlyAka
<1>3. Aka(E) = [a \in {bl(n) : n \in H} |-> Lower(ofE(a))]
  BY OnlyAka
<1>4. H = G /\ \A n \in G : bl(n) = al(n)
  BY <1>1
<1> HIDE DEF G, H, al, bl
<1>5. {bl(n) : n \in H} = {al(n) : n \in G}
  BY <1>4
<1>6. ASSUME NEW a PROVE ofE(a) = ofD(a)
  <2>1. \A n : (n \in H /\ bl(n) = a) <=> (n \in G /\ al(n) = a)
    BY <1>4
  <2> QED
    BY <2>1
<1> HIDE DEF ofD, ofE
<1> QED
  BY <1>2, <1>3, <1>5, <1>6

LEMMA AlikeEntities ==
    ASSUME NEW D, NEW E, PartOf(D, {"declare"}), PartOf(E, {"declare"}),
           Distinct(D), Distinct(E), Alike(D, E), NEW classes
    PROVE  Entities(E, classes) = Entities(D, classes)
<1> DEFINE places(F, n) == {i \in DOMAIN F : Lower(F[i].name) = n}
           class(w) == IF w \in classes THEN w ELSE Alias(w)
           entity(s) == [class |-> class(Lower(s.class)), attrs |-> FoldAttrs(s.attrs)]
           names(F) == {Lower(F[i].name) : i \in DOMAIN F}
<1>1. \A F : Entities(F, classes) = [n \in names(F) |-> entity(F[Max(places(F, n))])]
  BY DEF Entities
<1>2. names(E) = names(D)
  BY DEF Alike
<1>3. ASSUME NEW F, PartOf(F, {"declare"}), Distinct(F), NEW i \in DOMAIN F
      PROVE  Max(places(F, Lower(F[i].name))) = i
  <2>1. places(F, Lower(F[i].name)) = {i}
    BY <1>3 DEF Distinct
  <2> QED
    BY <1>3, <2>1, TheOnly
<1>4. ASSUME NEW n \in names(D) PROVE E[Max(places(E, n))] = D[Max(places(D, n))]
  <2>1. PICK i \in DOMAIN D : Lower(D[i].name) = n
    OBVIOUS
  <2>2. PICK j \in DOMAIN E : E[j] = D[i]
    BY DEF Alike
  <2>3. Max(places(D, n)) = i
    BY <1>3, <2>1
  <2>4. Max(places(E, n)) = j
    BY <1>3, <2>1, <2>2
  <2> QED
    BY <2>2, <2>3, <2>4
<1> HIDE DEF places, names, entity
<1> QED
  BY <1>1, <1>2, <1>4
\* A text turned round: each statement changes places with another.
LEMMA Turned ==
    ASSUME NEW s \in Seq(Statement)
    PROVE  /\ Reverse(s) \in Seq(Statement) /\ DOMAIN Reverse(s) = DOMAIN s
           /\ \A i \in DOMAIN s : /\ Len(s) - i + 1 \in DOMAIN s
                                  /\ Len(s) - (Len(s) - i + 1) + 1 = i
                                  /\ Reverse(s)[i] = s[Len(s) - i + 1]
  BY DEF Reverse

LEMMA TurnedUnambiguous ==
    ASSUME NEW s \in Seq(Statement), Unambiguous(s)
    PROVE  Unambiguous(Reverse(s))
<1> DEFINE t == Reverse(s)
           o(i) == Len(s) - i + 1
<1>1. /\ DOMAIN t = DOMAIN s
      /\ \A i \in DOMAIN s : o(i) \in DOMAIN s /\ t[i] = s[o(i)] /\ o(o(i)) = i
  BY Turned
<1>2. \A i, j \in DOMAIN s : i # j => o(i) # o(j)
  BY <1>1
<1> HIDE DEF o, t
<1>3. \A i \in DOMAIN t : t[i].kind # "broken" /\ t[i].ends # "open"
  BY <1>1 DEF Unambiguous
<1>4. ASSUME NEW i \in DOMAIN t, NEW j \in DOMAIN t, t[i].kind = t[j].kind, i # j
      PROVE  /\ t[i].kind \in {"define", "declare"} => Lower(t[i].name) # Lower(t[j].name)
             /\ t[i].kind = "define" /\ t[i].aka # None /\ t[j].aka # None
                   => Lower(t[i].aka) # Lower(t[j].aka)
  <2>1. o(i) \in DOMAIN s /\ o(j) \in DOMAIN s /\ o(i) # o(j) /\ t[i] = s[o(i)] /\ t[j] = s[o(j)]
    <3>1. i \in DOMAIN s /\ j \in DOMAIN s
      BY <1>1
    <3>2. o(i) # o(j)
      BY <1>2, <1>4, <3>1, Zenon
    <3> QED
      BY <1>1, <3>1, <3>2, Zenon
  <2> QED
    BY <1>4, <2>1 DEF Unambiguous
<1>5. Unambiguous(t)
  BY <1>3, <1>4 DEF Unambiguous
<1> QED
  BY <1>5 DEF t

LEMMA KeptWhole ==
    ASSUME NEW s \in Seq(Statement), Unambiguous(s), NEW kinds
    PROVE  /\ DOMAIN Kept(s, kinds) = {j \in DOMAIN s : s[j].kind \in kinds}
           /\ \A i \in DOMAIN Kept(s, kinds) : Kept(s, kinds)[i] = s[i]
<1>1. \A i \in DOMAIN s : ~Lost(s, i) /\ Read(s, i) = s[i]
  <2>1. \A i \in DOMAIN s : /\ \A j \in 1..i : j \in DOMAIN s
                            /\ i > 1 => i - 1 \in DOMAIN s
    OBVIOUS
  <2>2. \A i \in DOMAIN s : ~Beheaded(s, i)
    BY <2>1 DEF Beheaded, Unambiguous
  <2>3. \A i \in DOMAIN s : ~Fails(s, i)
    BY <2>2 DEF Fails, Unambiguous
  <2> QED
    BY <2>1, <2>2, <2>3 DEF Lost, Read, Unambiguous
<1>2. Kept(s, kinds) = [i \in {j \in DOMAIN s : s[j].kind \in kinds} |-> s[i]]
  BY <1>1 DEF Kept
<1> QED
  BY <1>2

LEMMA KeptDistinct ==
    ASSUME NEW s \in Seq(Statement), Unambiguous(s)
    PROVE  /\ Distinct(Kept(s, {"define"})) /\ DistinctAka(Kept(s, {"define"}))
           /\ Distinct(Kept(s, {"declare"}))
<1> DEFINE D == Kept(s, {"define"})
           d == Kept(s, {"declare"})
<1>1. \A i \in DOMAIN D : i \in DOMAIN s /\ D[i] = s[i] /\ s[i].kind = "define"
  <2>1. DOMAIN D = {j \in DOMAIN s : s[j].kind \in {"define"}} /\ \A i \in DOMAIN D : D[i] = s[i]
    BY KeptWhole
  <2> QED
    BY <2>1
<1>2. \A i \in DOMAIN d : i \in DOMAIN s /\ d[i] = s[i] /\ s[i].kind = "declare"
  <2>1. DOMAIN d = {j \in DOMAIN s : s[j].kind \in {"declare"}} /\ \A i \in DOMAIN d : d[i] = s[i]
    BY KeptWhole
  <2> QED
    BY <2>1
<1> HIDE DEF D, d
<1>3. Distinct(D) /\ DistinctAka(D)
  BY <1>1 DEF Unambiguous, Distinct, DistinctAka
<1>4. Distinct(d)
  BY <1>2 DEF Unambiguous, Distinct
<1> QED
  BY <1>3, <1>4 DEF D, d

LEMMA TurnedAlike ==
    ASSUME NEW s \in Seq(Statement), Unambiguous(s), NEW kinds
    PROVE  Alike(Kept(s, kinds), Kept(Reverse(s), kinds))
<1> DEFINE t == Reverse(s)
           o(i) == Len(s) - i + 1
           D == Kept(s, kinds)
           E == Kept(t, kinds)
<1>1. /\ DOMAIN t = DOMAIN s
      /\ \A i \in DOMAIN s : o(i) \in DOMAIN s /\ t[i] = s[o(i)] /\ t[o(i)] = s[i]
  BY Turned
<1>2. DOMAIN D = {j \in DOMAIN s : s[j].kind \in kinds} /\ \A i \in DOMAIN D : D[i] = s[i]
  BY KeptWhole
<1>3. DOMAIN E = {j \in DOMAIN t : t[j].kind \in kinds} /\ \A i \in DOMAIN E : E[i] = t[i]
  BY Turned, TurnedUnambiguous, KeptWhole
<1> HIDE DEF D, E, t, o
<1>4. \A i \in DOMAIN D : o(i) \in DOMAIN E /\ E[o(i)] = D[i]
  BY <1>1, <1>2, <1>3
<1>5. \A i \in DOMAIN E : o(i) \in DOMAIN D /\ D[o(i)] = E[i]
  BY <1>1, <1>2, <1>3
<1>6. Alike(D, E)
  BY <1>4, <1>5 DEF Alike
<1> QED
  BY <1>6 DEF D, E, t

\* The same rules, in whatever order, match the same calls.
LEMMA AlikeRules ==
    ASSUME NEW R, NEW S, Alike(R, S), NEW defs, NEW call, NEW result,
           NEW c, c = [defs |-> defs, rules |-> FoldRules(R)],
           NEW d, d = [defs |-> defs, rules |-> FoldRules(S)],
           Fires(c, call, result)
    PROVE  Fires(d, call, result)
<1>1. PICK i \in Rules(c, result) : MatchRule(c.defs, c.rules[i], Request(c.defs, call))
  BY DEF Fires
<1>2. i \in DOMAIN R /\ c.rules[i] = FoldRule(R[i]) /\ c.rules[i].result = result
  BY <1>1, FoldedRule DEF Rules
<1>3. PICK j \in DOMAIN S : S[j] = R[i]
  BY <1>2 DEF Alike
<1>4. j \in DOMAIN d.rules /\ d.rules[j] = FoldRule(S[j])
  BY <1>3, FoldedRule
<1>5. d.rules[j] = c.rules[i] /\ d.defs = c.defs
  BY <1>2, <1>3, <1>4
<1>6. j \in Rules(d, result)
  BY <1>2, <1>4, <1>5 DEF Rules
<1> QED
  BY <1>1, <1>5, <1>6 DEF Fires

\* Two texts with the same unambiguous statements compile to the same verdicts.
LEMMA AlikeCompiled ==
    ASSUME NEW D, NEW E, PartOf(D, {"define"}), PartOf(E, {"define"}),
           NEW d, NEW e, PartOf(d, {"declare"}), PartOf(e, {"declare"}),
           NEW R, NEW S, Alike(D, E), Alike(d, e), Alike(R, S),
           Distinct(D), Distinct(E), DistinctAka(D), DistinctAka(E), Distinct(d), Distinct(e)
    PROVE  /\ Compiled(E, e, S) = CompileError <=> Compiled(D, d, R) = CompileError
           /\ Compiled(D, d, R) # CompileError =>
                 \A call : allowed(Compiled(D, d, R), call) <=> allowed(Compiled(E, e, S), call)
<1>1. Valid(E) <=> Valid(D)
  <2>1. NoDuplicate(E) <=> NoDuplicate(D)
    BY AlikeNames
  <2>2. CASE NoDuplicate(D)
    BY <2>2, AlikeSchema
  <2>3. CASE ~NoDuplicate(D)
    BY <2>1, <2>3 DEF Valid
  <2> QED
    BY <2>2, <2>3
<1>2. ConditionsCompile(S) <=> ConditionsCompile(R)
  BY DEF ConditionsCompile, Alike
<1>3. \A defs, rules : [defs |-> defs, rules |-> rules] # CompileError
  <2>1. "defs" \notin DOMAIN CompileError
    BY DEF CompileError
  <2>2. \A defs, rules : "defs" \in DOMAIN [defs |-> defs, rules |-> rules]
    OBVIOUS
  <2> QED
    BY <2>1, <2>2
<1>4. ASSUME Valid(D), ConditionsCompile(R)
      PROVE  /\ Compiled(D, d, R) = [defs |-> Definitions(D, d), rules |-> FoldRules(R)]
             /\ Compiled(E, e, S) = [defs |-> Definitions(D, d), rules |-> FoldRules(S)]
  <2>1. NoDuplicate(D)
    BY <1>4 DEF Valid
  <2>2. Definitions(E, e) = Definitions(D, d)
    <3>1. Parent(E) = Parent(D) /\ Classes(E) = Classes(D)
          /\ \A line : Fixed(E, line) = Fixed(D, line)
      BY <2>1, AlikeSchema, AlikeNames
    <3>2. Aka(E) = Aka(D)
      BY AlikeAka
    <3>3. \A classes : Entities(e, classes) = Entities(d, classes)
      BY AlikeEntities
    <3> QED
      BY <3>1, <3>2, <3>3, SameDefinitions
  <2> QED
    BY <1>1, <1>2, <1>4, <2>2 DEF Compiled
<1>5. CASE Valid(D) /\ ConditionsCompile(R)
  <2> DEFINE defs == Definitions(D, d)
             b == Compiled(D, d, R)
             c == Compiled(E, e, S)
  <2>1. b = [defs |-> defs, rules |-> FoldRules(R)] /\ c = [defs |-> defs, rules |-> FoldRules(S)]
    BY <1>4, <1>5
  <2>2. Alike(S, R)
    BY DEF Alike
  <2> HIDE DEF b, c, defs
  <2>3. \A call, result : Fires(b, call, result) <=> Fires(c, call, result)
    BY <2>1, <2>2, AlikeRules
  <2>4. \A call : allowed(b, call) <=> allowed(c, call)
    BY <2>3, Verdict
  <2>5. b # CompileError /\ c # CompileError
    BY <2>1, <1>3
  <2> QED
    BY <2>4, <2>5 DEF b, c
<1>6. CASE ~(Valid(D) /\ ConditionsCompile(R))
  BY <1>1, <1>2, <1>6 DEF Compiled
<1> QED
  BY <1>5, <1>6

\* Whatever an unambiguous text says, it says in any order: turned round, it is
\* refused as before or decides every call as before (class_schema.py 56-151,
\* checker.py 148-193).
THEOREM OrderIrrelevantHolds == Spec => []OrderIrrelevant
<1>1. CompiledText => OrderIrrelevant
  <2> SUFFICES ASSUME CompiledText, Unambiguous(text)
               PROVE  LET turned == compile_rules(Reverse(text)) IN
                      IF turned = CompileError THEN ~Ok
                      ELSE Ok /\ \A call \in Call : allowed(crs, call) <=> allowed(turned, call)
    BY DEF OrderIrrelevant
  <2> DEFINE t == Reverse(text)
             K(s, kinds) == Kept(s, kinds)
  <2>1. text \in Seq(Statement) /\ t \in Seq(Statement) /\ Unambiguous(t)
    BY Turned, TurnedUnambiguous DEF CompiledText
  <2>2. \A kinds : Alike(K(text, kinds), K(t, kinds))
    BY <2>1, TurnedAlike
  <2> HIDE DEF t
  <2>3. \A kinds : PartOf(K(text, kinds), kinds) /\ PartOf(K(t, kinds), kinds)
    BY <2>1, KeptIsPart
  <2>4. /\ Distinct(K(text, {"define"})) /\ DistinctAka(K(text, {"define"}))
        /\ Distinct(K(text, {"declare"}))
        /\ Distinct(K(t, {"define"})) /\ DistinctAka(K(t, {"define"}))
        /\ Distinct(K(t, {"declare"}))
    BY <2>1, KeptDistinct
  <2> DEFINE R == {"allow", "never"}
             b == Compiled(K(text, {"define"}), K(text, {"declare"}), K(text, R))
             c == Compiled(K(t, {"define"}), K(t, {"declare"}), K(t, R))
  <2>5. /\ c = CompileError <=> b = CompileError
        /\ b # CompileError => \A call : allowed(b, call) <=> allowed(c, call)
    <3> HIDE DEF K
    <3> QED
      BY <2>2, <2>3, <2>4, AlikeCompiled
  <2>6. crs = b /\ compile_rules(t) = c
    BY DEF CompiledText, compile_rules
  <2> HIDE DEF b, c
  <2> QED
    BY <2>5, <2>6 DEF Ok, t
<1> QED
  BY <1>1, CompiledTextHolds, PTL
=============================================================================
