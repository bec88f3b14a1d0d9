--------------------------- MODULE ZplParser_proofs ---------------------------
(***************************************************************************)
(* Proofs about ZplParser, for any words and for texts of any length.      *)
(*                                                                         *)
(* PlaceOK says which of its accounts the parser needs at which place, and *)
(* where a value is given back to.  CountOK relates the conditions that    *)
(* were written to those kept; while the value of one is being read, it is *)
(* already the first and not yet the second.                               *)
(***************************************************************************)
EXTENDS ZplParser, TLAPS

AheadOK == /\ ahead \in Seq(Token \cup {End}) /\ Len(ahead) <= 3
           /\ \A i \in 1..Len(ahead) - 1 : ahead[i] # End

InSpec == {"spec", "with?", "with", "spec-end"}
InValue == {"value", "set"}
Whens == {"when", "'when'", "tail"}

PlaceOK ==
    /\ slot \in Slot \cup {None} /\ tags \in {"none", "list", "text"}
    /\ at \in InSpec => slot # None
    /\ at \notin InValue => back = None /\ key = None
    /\ at \in InValue => \/ back \in {"spec", "with"} /\ slot # None /\ key \in Named
                         \/ back = "when-comma" /\ key = "tail"
                         \/ back \in {"attr-separator", "entity-separator"} /\ key = None

CountOK ==
    /\ whens \subseteq Place /\ written \in 0..2
    /\ at \in {"top", "recover"} => slot = None /\ written = 0
    /\ IF key \in Whens
       THEN /\ written # 0
            /\ written = 1 => whens = {}
       ELSE /\ written = 0 <=> whens = {}
            /\ written = 1 => \E p \in Place : whens = {p}

IInv == AheadOK /\ PlaceOK /\ CountOK /\ turn \in BOOLEAN

PeriodResync == "." \in TakenTokens => at' = "top"

Kept == PlaceOK' /\ CountOK' /\ AheadOK' /\ PeriodResync

-----------------------------------------------------------------------------
LEMMA TokenFacts ==
    /\ "." \notin Named /\ "comma" \notin Named /\ ":" \notin Named /\ "lbrace" \notin Named
    /\ "rbrace" \notin Named /\ End \notin Token /\ "tail" \notin Named
    /\ None \notin Place /\ None \notin Named /\ None \notin Whens
  BY WordAssumption DEF Named, Text, Token, Marks, Starters, Separators, Quoted,
                        Place, Slot, End, Whens

\* Taking tokens leaves the rest.
LEMMA Taking ==
    ASSUME AheadOK, NEW n \in 0..3, n <= Len(ahead), Take(n)
    PROVE  AheadOK' /\ TakenTokens = {ahead[i] : i \in 1..n}
<1>1. /\ ahead' \in Seq(Token \cup {End}) /\ Len(ahead') = Len(ahead) - n
      /\ \A i \in 1..Len(ahead') : ahead'[i] = ahead[i + n]
  BY DEF Take, AheadOK
<1>2. Len(ahead) \in Nat /\ Len(ahead) - Len(ahead') = n
  BY <1>1 DEF AheadOK
<1> QED
  BY <1>1, <1>2 DEF AheadOK, TakenTokens

LEMMA Leaving == ASSUME AheadOK, Leave PROVE AheadOK' /\ PeriodResync
  BY DEF AheadOK, Leave, TakenTokens, PeriodResync

\* The token in front is one, and may be taken.
LEMMA TakingOne ==
    ASSUME AheadOK, Ready, Take(1)
    PROVE  AheadOK' /\ TakenTokens = {Next1}
<1>1. 1 <= Len(ahead) /\ ahead[1] = Next1
  BY DEF Ready, Next1, Peek
<1> QED
  BY <1>1, Taking

LEMMA TakingTwo ==
    ASSUME AheadOK, Take(2), Peek(2) # End
    PROVE  AheadOK' /\ TakenTokens = {Next1, Peek(2)}
<1>1. 2 <= Len(ahead) /\ ahead[1] = Next1 /\ ahead[2] = Peek(2)
  BY DEF Next1, Peek, AheadOK
<1>2. AheadOK' /\ TakenTokens = {ahead[i] : i \in 1..2}
  BY <1>1, Taking
<1> QED
  BY <1>1, <1>2

LEMMA TakingThree ==
    ASSUME AheadOK, Take(3), Peek(3) # End
    PROVE  AheadOK' /\ TakenTokens = {Next1, Peek(2), Peek(3)}
<1>1. 3 <= Len(ahead) /\ ahead[1] = Next1 /\ ahead[2] = Peek(2) /\ ahead[3] = Peek(3)
  BY DEF Next1, Peek, AheadOK
<1>2. AheadOK' /\ TakenTokens = {ahead[i] : i \in 1..3}
  BY <1>1, Taking
<1> QED
  BY <1>1, <1>2

-----------------------------------------------------------------------------
(* Going to a place, outside of a value.                                    *)

LEMMA Going ==
    ASSUME PlaceOK, CountOK, at \notin InValue, NEW p, Goto(p),
           p \notin InValue \cup {"recover"}, p \in InSpec => slot # None
    PROVE  PlaceOK' /\ CountOK' /\ at' = (IF p \in Slot THEN "spec" ELSE p)
<1>1. key = None /\ back = None /\ None \notin Whens
  BY TokenFacts DEF PlaceOK
<1>2. CASE p \in Slot
  <2>1. at' = "spec" /\ slot' = p /\ tags' = "none" /\ UNCHANGED <<key, back, whens, written>>
    BY <1>2 DEF Goto, NewSlot, Slot
  <2>2. p # None
    BY <1>2, TokenFacts DEF Place
  <2>3. PlaceOK'
    BY <1>1, <1>2, <2>1, <2>2 DEF PlaceOK, InSpec, InValue
  <2>4. CountOK'
    BY <1>1, <2>1 DEF CountOK
  <2> QED
    BY <1>2, <2>1, <2>3, <2>4
<1>3. CASE p = "top"
  <2>1. /\ at' = "top" /\ slot' = None /\ tags' = "none" /\ key' = None /\ back' = None
        /\ whens' = {} /\ written' = 0
    BY <1>3 DEF Goto, Fresh, Slot
  <2> QED
    BY <1>1, <1>3, <2>1 DEF PlaceOK, CountOK, InSpec, InValue, Slot
<1>4. CASE p \notin Slot \cup {"top"}
  <2>1. at' = p /\ UNCHANGED <<slot, tags, key, back, whens, written>>
    BY <1>4 DEF Goto, rule
  <2>2. PlaceOK'
    BY <1>1, <1>4, <2>1 DEF PlaceOK
  <2>3. CountOK'
    BY <1>1, <1>4, <2>1 DEF CountOK
  <2> QED
    BY <1>4, <2>1, <2>2, <2>3
<1> QED
  BY <1>2, <1>3, <1>4

LEMMA Erring == ASSUME AheadOK, Error PROVE Kept
<1>1. /\ at' = "recover" /\ slot' = None /\ tags' = "none" /\ key' = None /\ back' = None
      /\ whens' = {} /\ written' = 0 /\ None \notin Whens
  BY TokenFacts DEF Error, Fresh
<1>2. AheadOK' /\ PeriodResync
  BY Leaving DEF Error
<1> QED
  BY <1>1, <1>2 DEF Kept, PlaceOK, CountOK, InSpec, InValue

\* A place that the parser comes to with a token taken, or none.
LEMMA Walking ==
    ASSUME IInv, Ready, at \notin InValue, NEW p, Goto(p),
           p \notin InValue \cup {"recover"}, p \in InSpec => slot # None,
           Leave \/ (Take(1) /\ (Next1 = "." => p = "top"))
    PROVE  Kept
<1>1. PlaceOK' /\ CountOK' /\ at' = (IF p \in Slot THEN "spec" ELSE p)
  BY Going DEF IInv
<1>2. CASE Leave
  BY <1>1, <1>2, Leaving DEF IInv, Kept
<1>3. CASE Take(1) /\ (Next1 = "." => p = "top")
  <2>1. AheadOK' /\ TakenTokens = {Next1}
    BY <1>3, TakingOne DEF IInv
  <2>2. "top" \notin Slot
    BY DEF Slot
  <2> QED
    BY <1>1, <1>3, <2>1, <2>2 DEF Kept, PeriodResync
<1> QED
  BY <1>2, <1>3

-----------------------------------------------------------------------------
LEMMA ExpectKeeps == ASSUME IInv, Ready, Expect PROVE Kept
<1> PICK e \in Expected : /\ at = e[1]
                          /\ IF Next1 = e[2] THEN Take(1) /\ Goto(e[3]) ELSE Error
  BY DEF Expect
<1>1. /\ e[1] \notin InValue /\ e[2] # "." /\ e[3] \notin InValue \cup {"recover"} \cup InSpec
  BY DEF Expected, InValue, InSpec
<1> QED
  BY <1>1, Walking, Erring DEF IInv

LEMMA NameKeeps == ASSUME IInv, Ready, Name PROVE Kept
<1> PICK n \in NameThen : /\ at = n[1]
                          /\ IF Next1 \in Named THEN Take(1) /\ Goto(n[2]) ELSE Error
  BY DEF Name
<1>1. n[1] \notin InValue /\ n[2] \notin InValue \cup {"recover"} \cup InSpec
  BY DEF NameThen, InValue, InSpec
<1>2. Next1 \in Named => Next1 # "."
  BY TokenFacts
<1> QED
  BY <1>1, <1>2, Walking, Erring DEF IInv

LEMMA EatKeeps == ASSUME IInv, Ready, Eat PROVE Kept
<1> PICK o \in Optional : /\ at = o[1]
                          /\ IF Next1 \in o[2] THEN Take(1) /\ Goto(o[3]) ELSE Leave /\ Goto(o[4])
  BY DEF Eat
<1>1. /\ o[1] \notin InValue
      /\ o[3] \notin InValue \cup {"recover"} /\ o[4] \notin InValue \cup {"recover"}
  BY DEF Optional, InValue
<1>2. o[3] \in InSpec \/ o[4] \in InSpec => o[1] \in InSpec
  BY DEF Optional, InSpec
<1>3. "." \in o[2] => o[3] = "top"
  BY DEF Optional
<1>4. at \in InSpec => slot # None
  BY DEF IInv, PlaceOK
<1> QED
  BY <1>1, <1>2, <1>3, <1>4, Walking

LEMMA TopKeeps == ASSUME IInv, Ready, Top PROVE Kept
<1>1. at = "top" /\ at \notin InValue
  BY DEF Top, InValue
<1>2. CASE Next1 = End /\ Leave /\ Goto("done")
  BY <1>1, <1>2, Walking DEF InValue, InSpec
<1>3. CASE Next1 \in Marks \cup Quoted /\ Take(1) /\ Goto("top")
  BY <1>1, <1>3, Walking DEF InValue, InSpec
<1>4. CASE Next1 \in {"define", "declare", "never"} /\ Take(1) /\ Goto(Next1)
  BY <1>1, <1>4, Walking DEF InValue, InSpec
<1>5. CASE Next1 = "allow" /\ Take(1) /\ Goto("subject")
  BY <1>1, <1>5, Walking DEF InValue, InSpec
<1>6. CASE Error
  BY <1>6, Erring DEF IInv
<1> QED
  BY <1>2, <1>3, <1>4, <1>5, <1>6 DEF Top

LEMMA RecoverKeeps == ASSUME IInv, Ready, Recover PROVE Kept
<1>1. at = "recover" /\ at \notin InValue
  BY DEF Recover, InValue
<1>2. CASE Next1 = End /\ Leave /\ Goto("top")
  BY <1>1, <1>2, Walking DEF InValue, InSpec
<1>3. CASE Next1 = "." /\ Take(1) /\ Goto("top")
  BY <1>1, <1>3, Walking DEF InValue, InSpec
<1>4. CASE Next1 \in Token \ {"."} /\ Take(1) /\ Goto("recover")
  <2>1. at' = "recover" /\ UNCHANGED rule
    BY <1>4 DEF Goto, Slot
  <2>2. AheadOK' /\ TakenTokens = {Next1}
    BY <1>4, TakingOne DEF IInv
  <2>3. PlaceOK' /\ CountOK'
    BY <1>1, <2>1 DEF IInv, PlaceOK, CountOK, rule
  <2> QED
    BY <1>4, <2>2, <2>3 DEF Kept, PeriodResync
<1> QED
  BY <1>2, <1>3, <1>4 DEF Recover

LEMMA AttrsKeeps == ASSUME IInv, Ready, Attrs \/ NextTag PROVE Kept
<1>1. at \notin InValue
  BY DEF Attrs, NextTag, InValue
<1>2. PICK p \in {"attr", "statement-end", "tag"} :
         Goto(p) /\ (Leave \/ (Take(1) /\ Next1 # "."))
  BY DEF Attrs, NextTag
<1> QED
  BY <1>1, <1>2, Walking DEF InValue, InSpec

-----------------------------------------------------------------------------
(* Values.                                                                  *)

\* The parser begins a value, of a condition or not.
LEMMA Valuing ==
    ASSUME IInv, at \notin InValue, NEW name, NEW then, ValueOf(name, then),
           \/ then \in {"spec", "with"} /\ slot # None /\ name \in Named
           \/ then = "when-comma" /\ name = "tail"
           \/ then \in {"attr-separator", "entity-separator"} /\ name = None,
           written' = IF name \in Whens /\ written < 2 THEN written + 1 ELSE written
    PROVE  PlaceOK' /\ CountOK' /\ at' = "value"
<1>1. /\ at' = "value" /\ key' = name /\ back' = then /\ UNCHANGED <<slot, tags, whens>>
      /\ key \notin Whens
  BY TokenFacts DEF ValueOf, IInv, PlaceOK
<1>2. PlaceOK'
  BY <1>1 DEF IInv, PlaceOK, InValue, InSpec
<1>3. CountOK'
  BY <1>1 DEF IInv, CountOK
<1> QED
  BY <1>1, <1>2, <1>3

LEMMA PlainValueKeeps ==
    ASSUME IInv, Ready, AttrValue \/ EntityAttr PROVE Kept
<1>1. at \notin InValue
  BY DEF AttrValue, EntityAttr, InValue
<1>2. CASE \E then \in {"attr-separator", "entity-separator"} :
              Next1 = ":" /\ Take(1) /\ ValueOf(None, then) /\ UNCHANGED written
  <2>1. PlaceOK' /\ CountOK'
    BY <1>1, <1>2, Valuing, TokenFacts
  <2>2. AheadOK' /\ TakenTokens = {Next1}
    BY <1>2, TakingOne DEF IInv
  <2> QED
    BY <1>2, <2>1, <2>2 DEF Kept, PeriodResync
<1>3. CASE \E p \in {"attr-separator", "entity-separator", "entity-value?", "statement-end"} :
              Goto(p) /\ (Leave \/ (Take(1) /\ Next1 \in Named))
  <2> PICK p \in {"attr-separator", "entity-separator", "entity-value?", "statement-end"} :
              Goto(p) /\ (Leave \/ (Take(1) /\ Next1 \in Named))
    BY <1>3
  <2>1. Next1 \in Named => Next1 # "."
    BY TokenFacts
  <2> QED
    BY <1>1, <2>1, Walking DEF InValue, InSpec
<1> QED
  BY <1>2, <1>3 DEF AttrValue, EntityAttr

\* The key of an attribute of a spec.
LEMMA Keying ==
    ASSUME IInv, at \in {"spec", "with"}, NEW name \in Named, KeyOf(name)
    PROVE  PlaceOK' /\ CountOK'
<1>1. name \in Whens <=> name \in {"when", "'when'"}
  BY TokenFacts DEF Whens
<1>2. at \notin InValue /\ slot # None
  BY DEF InValue, InSpec, IInv, PlaceOK
<1>3. /\ ValueOf(name, at)
      /\ written' = IF name \in Whens /\ written < 2 THEN written + 1 ELSE written
  BY <1>1 DEF KeyOf
<1> QED
  BY <1>2, <1>3, Valuing

LEMMA SpecAttrKeeps == ASSUME IInv, Ready, SpecAttr PROVE Kept
<1>1. at = "spec" /\ Next1 \in Named /\ Peek(2) = ":" /\ Take(2) /\ KeyOf(Next1)
  BY DEF SpecAttr, Attributed
<1>2. PlaceOK' /\ CountOK'
  BY <1>1, Keying
<1>3. AheadOK' /\ TakenTokens = {Next1, ":"}
  BY <1>1, TakingTwo DEF IInv, End
<1> QED
  BY <1>1, <1>2, <1>3, TokenFacts DEF Kept, PeriodResync

LEMMA WithKeeps == ASSUME IInv, Ready, With PROVE Kept
<1>1. at = "with" /\ at \notin InValue /\ at \in InSpec
  BY DEF With, InValue, InSpec
<1>2. CASE Next1 \in {"comma", "and"} /\ Peek(2) \in Named /\ Peek(3) = ":"
           /\ Take(3) /\ KeyOf(Peek(2))
  <2>1. PlaceOK' /\ CountOK'
    BY <1>1, <1>2, Keying
  <2>2. AheadOK' /\ TakenTokens = {Next1, Peek(2), ":"}
    BY <1>2, TakingThree DEF IInv, End
  <2> QED
    BY <1>2, <2>1, <2>2, TokenFacts DEF Kept, PeriodResync
<1>3. CASE Next1 \in Named /\ Peek(2) = ":" /\ Take(2) /\ KeyOf(Next1)
  <2>1. PlaceOK' /\ CountOK'
    BY <1>1, <1>3, Keying
  <2>2. AheadOK' /\ TakenTokens = {Next1, ":"}
    BY <1>3, TakingTwo DEF IInv, End
  <2> QED
    BY <1>3, <2>1, <2>2, TokenFacts DEF Kept, PeriodResync
<1>4. CASE Leave /\ Goto("spec-end")
  <2>1. slot # None
    BY <1>1 DEF IInv, PlaceOK
  <2> QED
    BY <1>1, <1>4, <2>1, Walking DEF InValue
<1> QED
  BY <1>2, <1>3, <1>4 DEF With, Attributed

LEMMA WhenKeeps == ASSUME IInv, Ready, When PROVE Kept
<1>1. at = "when?" /\ at \notin InValue
  BY DEF When, InValue
<1>2. CASE /\ Next1 \in {"when", "When"} /\ Peek(2) = ":" /\ Take(2)
           /\ ValueOf("tail", "when-comma")
           /\ written' = IF written < 2 THEN written + 1 ELSE written
  <2>1. "tail" \in Whens
    BY DEF Whens
  <2>2. PlaceOK' /\ CountOK'
    BY <1>1, <1>2, <2>1, Valuing
  <2>3. AheadOK' /\ TakenTokens = {Next1, ":"}
    BY <1>2, TakingTwo DEF IInv, End
  <2> QED
    BY <1>2, <2>2, <2>3 DEF Kept, PeriodResync
<1>3. CASE Leave /\ Goto("signal?")
  BY <1>1, <1>3, Walking DEF InValue, InSpec
<1> QED
  BY <1>2, <1>3 DEF When

\* The value is there: a condition is kept at its place.
LEMMA Giving ==
    ASSUME IInv, at \in InValue, NEW kind \in {"list", "text"}, Given(kind)
    PROVE  PlaceOK' /\ CountOK'
<1>1. /\ at' = back /\ key' = None /\ back' = None /\ UNCHANGED <<slot, written>>
      /\ whens' = IF key \in Whens THEN whens \cup {Where} ELSE whens
      /\ tags' \in {"none", "list", "text"}
  BY DEF Given, Whens, IInv, PlaceOK
<1>2. /\ back \in {"spec", "with", "when-comma", "attr-separator", "entity-separator"}
      /\ back \in InSpec => slot # None
  BY DEF IInv, PlaceOK, InSpec
<1>3. PlaceOK'
  BY <1>1, <1>2 DEF IInv, PlaceOK, InValue
<1>4. key \in Whens => Where \in Place
  <2>1. None \notin Whens /\ "tail" \notin Named
    BY TokenFacts
  <2> QED
    BY <2>1 DEF IInv, PlaceOK, Where, Place
<1>5. CountOK'
  <2>1. at' \notin {"top", "recover"} /\ key' \notin Whens
    BY <1>1, <1>2, TokenFacts
  <2>2. CASE key \in Whens
    BY <1>1, <1>4, <2>1, <2>2 DEF IInv, CountOK
  <2>3. CASE key \notin Whens
    BY <1>1, <2>1, <2>3 DEF IInv, CountOK
  <2> QED
    BY <2>2, <2>3
<1> QED
  BY <1>3, <1>5

LEMMA ValueKeeps == ASSUME IInv, Ready, Value \/ Set PROVE Kept
<1>1. at \in InValue
  BY DEF Value, Set, InValue
<1>2. CASE Leave /\ Given("text")
  <2>1. PlaceOK' /\ CountOK'
    BY <1>1, <1>2, Giving
  <2> QED
    BY <1>2, <2>1, Leaving DEF IInv, Kept
<1>3. CASE \E kind \in {"list", "text"} : Next1 # "." /\ Take(1) /\ Given(kind)
  <2>1. PlaceOK' /\ CountOK'
    BY <1>1, <1>3, Giving
  <2>2. AheadOK' /\ TakenTokens = {Next1}
    BY <1>3, TakingOne DEF IInv
  <2> QED
    BY <1>3, <2>1, <2>2 DEF Kept, PeriodResync
<1>4. CASE Next1 # "." /\ Take(1) /\ Goto("set")
  <2>1. at' = "set" /\ UNCHANGED rule
    BY <1>4 DEF Goto, Slot
  <2>2. AheadOK' /\ TakenTokens = {Next1}
    BY <1>4, TakingOne DEF IInv
  <2>3. PlaceOK' /\ CountOK'
    BY <1>1, <2>1 DEF IInv, PlaceOK, CountOK, rule, InValue, InSpec
  <2> QED
    BY <1>4, <2>2, <2>3 DEF Kept, PeriodResync
<1>5. CASE Error
  BY <1>5, Erring DEF IInv
<1>6. CASE at = "set" /\ Leave /\ Goto("set")
  <2>1. at' = "set" /\ UNCHANGED rule
    BY <1>6 DEF Goto, Slot
  <2>2. PlaceOK' /\ CountOK'
    BY <1>6, <2>1 DEF IInv, PlaceOK, CountOK, rule, InValue, InSpec
  <2> QED
    BY <1>6, <2>2, Leaving DEF IInv, Kept
<1>7. Next1 \in Named => Next1 # "."
  BY TokenFacts
<1> QED
  BY <1>2, <1>3, <1>4, <1>5, <1>6, <1>7 DEF Value, Set

-----------------------------------------------------------------------------
(* Specs and rules.                                                         *)

\* A name is taken as a tag or as the class.
LEMMA Spelling ==
    ASSUME IInv, Ready, at = "spec", NEW p \in {"spec", "with?"}, at' = p,
           Next1 \in Named, Take(1), tags' \in {"none", "list"},
           UNCHANGED <<slot, key, back, whens, written>>
    PROVE  Kept
<1>1. PlaceOK' /\ CountOK'
  BY DEF IInv, PlaceOK, CountOK, InSpec, InValue
<1>2. AheadOK' /\ TakenTokens = {Next1}
  BY TakingOne DEF IInv
<1> QED
  BY <1>1, <1>2, TokenFacts DEF Kept, PeriodResync

LEMMA TagKeeps == ASSUME IInv, Ready, Tag PROVE Kept
<1>1. at = "spec" /\ at \notin InValue /\ slot # None /\ Next1 \in Named
  BY DEF Tag, InValue, IInv, PlaceOK, InSpec
<1>2. CASE Take(1) /\ Goto("spec")
  BY <1>1, <1>2, Walking, TokenFacts DEF InValue
<1>3. CASE Leave /\ Goto("raised")
  BY <1>1, <1>3, Walking DEF InValue, InSpec
<1>4. CASE Take(1) /\ at' = "spec" /\ tags' = "list"
           /\ UNCHANGED <<slot, key, back, whens, written>>
  BY <1>1, <1>4, Spelling
<1> QED
  BY <1>2, <1>3, <1>4 DEF Tag

LEMMA ClassKeeps == ASSUME IInv, Ready, Class PROVE Kept
<1>1. at = "spec"
  BY DEF Class
<1>2. CASE Next1 \in Named /\ Take(1) /\ at' = "with?" /\ tags' = "none"
           /\ UNCHANGED <<slot, key, back, whens, written>>
  BY <1>1, <1>2, Spelling
<1>3. CASE Error
  BY <1>3, Erring DEF IInv
<1> QED
  BY <1>2, <1>3 DEF Class

LEMMA RuleKeeps == ASSUME IInv, Ready, SpecEnd \/ Verb \/ Signal PROVE Kept
<1>1. at \notin InValue
  BY DEF SpecEnd, Verb, Signal, InValue
<1>2. CASE \E p \in {"accessor", "server", "to", "tail", "connect", "object", "signal", "rule-end"} :
              Goto(p) /\ (Leave \/ (Take(1) /\ Next1 # "."))
  <2> PICK p \in {"accessor", "server", "to", "tail", "connect", "object", "signal", "rule-end"} :
              Goto(p) /\ (Leave \/ (Take(1) /\ Next1 # "."))
    BY <1>2
  <2> QED
    BY <1>1, Walking DEF InValue, InSpec
<1>3. CASE Error
  BY <1>3, Erring DEF IInv
<1>4. Next1 \in Named => Next1 # "."
  BY TokenFacts
<1> QED
  BY <1>2, <1>3, <1>4 DEF SpecEnd, Verb, Signal

LEMMA LookKeeps == ASSUME IInv, Look PROVE Kept
<1>1. /\ UNCHANGED <<at, slot, tags, key, back, whens, written>>
      /\ ~Ready
  BY DEF Look, rule
<1> PICK t \in Token \cup {End} : ahead' = Append(ahead, t)
  BY DEF Look
<1>2. /\ ahead \in Seq(Token \cup {End}) /\ Len(ahead) <= 3
      /\ \A i \in 1..Len(ahead) - 1 : ahead[i] # End
  BY DEF IInv, AheadOK
<1>3. Len(ahead) <= 2 /\ (Len(ahead) >= 1 => ahead[Len(ahead)] # End)
  <2>1. Looks \in 1..3 /\ Len(ahead) \in Nat
    BY <1>2 DEF Looks
  <2>2. ahead = <<>> <=> Len(ahead) = 0
    BY <1>2
  <2> QED
    BY <1>1, <2>1, <2>2 DEF Ready, Ended
<1>4. AheadOK'
  BY <1>2, <1>3 DEF AheadOK
<1>5. PlaceOK' /\ CountOK'
  BY <1>1 DEF IInv, PlaceOK, CountOK
<1>6. TakenTokens = {}
  BY <1>2 DEF TakenTokens
<1> QED
  BY <1>4, <1>5, <1>6 DEF Kept, PeriodResync

LEMMA TurnKeeps == ASSUME IInv, Look \/ (Ready /\ Step) PROVE turn' \in BOOLEAN
<1>1. turn' = turn \/ turn' = ~turn
  BY DEF Look, Step, Set
<1> QED
  BY <1>1 DEF IInv

LEMMA NextKeeps == ASSUME IInv, [Next]_vars PROVE IInv' /\ (UNCHANGED vars \/ PeriodResync)
<1>1. CASE UNCHANGED vars
  BY <1>1 DEF vars, IInv, AheadOK, PlaceOK, CountOK
<1>2. CASE Look
  BY <1>2, LookKeeps, TurnKeeps DEF Kept, IInv
<1>3. CASE Ready /\ Step
  <2>1. Kept
    BY <1>3, ExpectKeeps, NameKeeps, EatKeeps, TopKeeps, RecoverKeeps, AttrsKeeps,
       PlainValueKeeps, TagKeeps, ClassKeeps, SpecAttrKeeps, WithKeeps, RuleKeeps,
       WhenKeeps, ValueKeeps DEF Step
  <2> QED
    BY <1>3, <2>1, TurnKeeps DEF Kept, IInv
<1> QED
  BY <1>1, <1>2, <1>3 DEF Next

THEOREM Inductive == Spec => []IInv
<1>1. Init => IInv
  <2> SUFFICES ASSUME Init PROVE IInv
    OBVIOUS
  <2>1. AheadOK
    BY DEF Init, AheadOK
  <2>2. PlaceOK /\ CountOK
    BY TokenFacts DEF Init, PlaceOK, CountOK, InSpec, InValue
  <2> QED
    BY <2>1, <2>2 DEF IInv, Init
<1>2. IInv /\ [Next]_vars => IInv'
  BY NextKeeps
<1> QED
  BY <1>1, <1>2, PTL DEF Spec

\* The parser keeps its place and its account of the rule, whatever the words.
THEOREM ParserTypeCorrect == Spec => []ParserTypeOK
<1>1. IInv => ParserTypeOK
  <2> SUFFICES ASSUME IInv PROVE ParserTypeOK
    OBVIOUS
  <2>1. /\ at \in {"value", "set"} <=> back # None
        /\ slot \in Place \cup {None} /\ tags \in {"none", "list", "text"}
    BY WordAssumption DEF IInv, PlaceOK, InValue, Place
  <2> QED
    BY <2>1 DEF IInv, AheadOK, CountOK, ParserTypeOK
<1> QED
  BY <1>1, Inductive, PTL

\* The next period ends a statement, whatever it stands in: in no text does an
\* error or an open clause reach further.
THEOREM PeriodResyncsHolds == Spec => PeriodResyncs
<1>1. IInv /\ [Next]_vars => ["." \in TakenTokens => at' = "top"]_vars
  BY NextKeeps DEF PeriodResync
<1> QED
  BY <1>1, Inductive, PTL DEF Spec, PeriodResyncs

\* The condition that is found is one that was written.
LEMMA HoistedIsOne ==
    ASSUME whens \subseteq Place
    PROVE  /\ whens # {} => Hoisted \in whens
           /\ whens = {} => Hoisted = None
<1> DEFINE having == {i \in DOMAIN Slots : Slots[i] \in whens}
<1>1. /\ DOMAIN Slots = 1..4 /\ Slots[1] = "subject" /\ Slots[2] = "accessor"
      /\ Slots[3] = "object" /\ Slots[4] = "server"
  BY DEF Slots
<1>2. having # {} => \E i \in having : \A j \in having : j <= i
  BY <1>1
<1>3. having # {} => (CHOOSE i \in having : \A j \in having : j <= i) \in having
  BY <1>2
<1>4. having = {} => whens \subseteq {"tail"}
  BY <1>1 DEF Place, Slot
<1>5. Hoisted = IF having # {} THEN Slots[CHOOSE i \in having : \A j \in having : j <= i]
                ELSE IF "tail" \in whens THEN "tail" ELSE None
  BY DEF Hoisted
<1> HIDE DEF having
<1>6. having # {} => Hoisted \in whens
  BY <1>3, <1>5 DEF having
<1>7. having # {} => whens # {}
  BY <1>6
<1> QED
  BY <1>4, <1>5, <1>6, <1>7

\* A rule with conditions written to it has one, and if there is but one, that.
THEOREM ConditionKeptHolds == Spec => []ConditionKept
<1>1. IInv => ConditionKept
  <2> SUFFICES ASSUME IInv, at = "rule-end"
               PROVE  /\ written = 0 <=> Hoisted = None
                      /\ written = 1 => whens = {Hoisted}
    BY DEF ConditionKept
  <2>1. key \notin Whens /\ None \notin Place
    BY TokenFacts DEF IInv, PlaceOK, InValue
  <2>2. /\ whens \subseteq Place
        /\ written = 0 <=> whens = {}
        /\ written = 1 => \E p \in Place : whens = {p}
    BY <2>1 DEF IInv, CountOK
  <2> QED
    BY <2>1, <2>2, HoistedIsOne
<1> QED
  BY <1>1, Inductive, PTL
-----------------------------------------------------------------------------
(* No idle circle: each action takes a token or goes down in rank.          *)

Descends == Len(ahead') = Len(ahead) => Rank' < Rank

\* A statement is being read.
Reading == at \notin {"done", "raised", "top", "recover"}

LEMMA TakingDescends ==
    ASSUME AheadOK, Ready, NEW n \in 1..3, Take(n)
    PROVE  Descends
<1>1. Len(ahead) \in Nat /\ Len(ahead) >= 1
  BY DEF AheadOK, Ready
<1>2. Len(ahead') < Len(ahead)
  BY <1>1 DEF Take, AheadOK
<1> QED
  BY <1>2 DEF Descends

LEMMA Ranks ==
    /\ at \in {"done", "raised"} => Rank = 0
    /\ at = "top" => Rank \in {1, 3}
    /\ at = "top" /\ Next1 = End => Rank = 1
    /\ at = "top" /\ Next1 \in Text \ Starters => Rank = 3
    /\ at = "recover" => Rank = 2
    /\ Reading => Rank \in 4..10
<1>1. End \notin Text
  BY WordAssumption DEF Text, Starters, Separators, End
<1> QED
  BY <1>1 DEF Rank, Reading

\* The places outside of a statement have the lowest ranks, and a slot of a
\* rule begins with a low one.
LEMMA RanksNext ==
    /\ at' \in {"done", "raised"} => Rank' = 0
    /\ at' = "top" => Rank' \in {1, 3}
    /\ at' = "top" /\ Next1' = End => Rank' = 1
    /\ at' = "recover" => Rank' = 2
    /\ at' = "spec" => Rank' = 4
<1>1. End \notin Text
  BY WordAssumption DEF Text, Starters, Separators, End
<1> QED
  BY <1>1 DEF Rank

\* A place that the parser goes to.
LEMMA GoingTo == ASSUME NEW p, Goto(p) PROVE at' = (IF p \in Slot THEN "spec" ELSE p)
  BY DEF Goto, NewSlot, Fresh, Slot

LEMMA ErringDescends == ASSUME Error, Reading \/ Rank = 3 PROVE Descends
  BY Ranks, RanksNext DEF Error, Descends

LEMMA ExpectDescends == ASSUME AheadOK, Ready, Expect \/ Name PROVE Descends
<1>1. Reading
  BY DEF Expect, Name, Expected, NameThen, Reading
<1>2. Take(1) \/ Error
  BY DEF Expect, Name
<1> QED
  BY <1>1, <1>2, TakingDescends, ErringDescends

\* Each of the places that may be passed without a token has a higher rank than
\* the one behind it.
LEMMA EatDescends == ASSUME AheadOK, Ready, Eat PROVE Descends
<1> PICK o \in Optional : /\ at = o[1]
                          /\ IF Next1 \in o[2] THEN Take(1) /\ Goto(o[3]) ELSE Leave /\ Goto(o[4])
  BY DEF Eat
<1>1. CASE Take(1)
  BY <1>1, TakingDescends
<1>2. CASE Goto(o[4])
  <2>1. at' = (IF o[4] \in Slot THEN "spec" ELSE o[4])
    BY <1>2, GoingTo
  <2>2. CASE o[4] = "top"
    <3>1. Reading
      BY <2>2 DEF Optional, Reading
    <3> QED
      BY <2>1, <2>2, <3>1, Ranks, RanksNext DEF Descends, Slot
  <2>3. CASE o[4] # "top"
    BY <2>1, <2>3 DEF Optional, Slot, Rank, Descends
  <2> QED
    BY <2>2, <2>3
<1> QED
  BY <1>1, <1>2

\* Between statements the parser leaves a word to the error recovery, which
\* takes it, and the end of the text to the end.
LEMMA TopDescends == ASSUME AheadOK, Ready, Top \/ Recover PROVE Descends
<1>1. CASE Take(1)
  BY <1>1, TakingDescends
<1>2. CASE at = "top" /\ Next1 = End /\ Leave /\ Goto("done")
  BY <1>2, GoingTo, Ranks, RanksNext DEF Descends, Slot
<1>3. CASE at = "top" /\ Next1 \in Text \ Starters /\ Error
  BY <1>3, Ranks, ErringDescends
<1>4. CASE at = "recover" /\ Next1 = End /\ Leave /\ Goto("top")
  <2>1. at' = "top" /\ Next1' = End
    BY <1>4, GoingTo DEF Slot, Leave, Next1, Peek
  <2> QED
    BY <1>4, <2>1, Ranks, RanksNext DEF Descends
<1> QED
  BY <1>1, <1>2, <1>3, <1>4 DEF Top, Recover

\* A place of a statement left for another one, without a token.
LEMMA AttrsDescends ==
    ASSUME AheadOK, Ready, Attrs \/ NextTag \/ AttrValue \/ EntityAttr PROVE Descends
<1>1. CASE Take(1)
  BY <1>1, TakingDescends
<1>2. CASE at \in {"attrs?", "next-tag"}
           /\ \E p \in {"attr", "statement-end", "tag"} : Goto(p)
  BY <1>2, GoingTo DEF Slot, Rank, Descends
<1>3. CASE at = "attr-value?" /\ Goto("attr-separator")
  BY <1>3, GoingTo DEF Slot, Rank, Descends
<1>4. CASE at = "entity" /\ Goto("statement-end")
  BY <1>4, GoingTo DEF Slot, Rank, Descends
<1>5. CASE at = "entity-value?" /\ Goto("entity-separator")
  BY <1>5, GoingTo DEF Slot, Rank, Descends
<1> QED
  BY <1>1, <1>2, <1>3, <1>4, <1>5 DEF Attrs, NextTag, AttrValue, EntityAttr

LEMMA SpecDescends ==
    ASSUME AheadOK, Ready, Tag \/ Class \/ SpecAttr \/ With PROVE Descends
<1>1. CASE Take(1) \/ Take(2) \/ Take(3)
  BY <1>1, TakingDescends
<1>2. CASE at = "spec" /\ Goto("raised")
  BY <1>2, GoingTo, Ranks, RanksNext DEF Slot, Descends, Reading
<1>3. CASE at = "spec" /\ Error
  BY <1>3, ErringDescends DEF Reading
<1>4. CASE at = "with" /\ Goto("spec-end")
  BY <1>4, GoingTo DEF Slot, Rank, Descends
<1> QED
  BY <1>1, <1>2, <1>3, <1>4 DEF Tag, Class, SpecAttr, With

LEMMA RuleDescends ==
    ASSUME AheadOK, Ready, SpecEnd \/ Verb \/ When \/ Signal PROVE Descends
<1>1. CASE Take(1) \/ Take(2)
  BY <1>1, TakingDescends
<1>2. CASE at = "spec-end" /\ (Goto("to") \/ Goto("tail"))
  BY <1>2, GoingTo DEF Slot, Rank, Descends
<1>3. CASE at = "verb" /\ Error
  BY <1>3, ErringDescends DEF Reading
<1>4. CASE at = "when?" /\ Goto("signal?")
  BY <1>4, GoingTo DEF Slot, Rank, Descends
<1>5. CASE at = "signal" /\ Goto("rule-end")
  BY <1>5, GoingTo DEF Slot, Rank, Descends
<1> QED
  BY <1>1, <1>2, <1>3, <1>4, <1>5 DEF SpecEnd, Verb, When, Signal

\* A value goes back to a place of a lower rank, be it there or missing.
LEMMA ValueDescends == ASSUME IInv, Ready, Value \/ (Set /\ ~Stuck) PROVE Descends
<1>1. CASE Take(1)
  BY <1>1, TakingDescends DEF IInv
<1>2. CASE at = "value" /\ Given("text")
  <2>1. at' \in {"spec", "with", "when-comma", "attr-separator", "entity-separator"}
    BY <1>2 DEF Given, IInv, PlaceOK, InValue
  <2> QED
    BY <1>2, <2>1 DEF Rank, Descends
<1>3. CASE at = "set" /\ Error
  BY <1>3, ErringDescends DEF Reading
<1> QED
  BY <1>1, <1>2, <1>3 DEF Value, Set, Stuck

\* Before a mark in a set there is but the next turn of the loop.
LEMMA StuckStays == ASSUME Stuck, Next PROVE UNCHANGED <<at, ahead>>
<1>1. Next1 # End /\ Next1 \notin Named \cup {"comma"} /\ Next1 # "rbrace"
  BY TokenFacts DEF Stuck, End
<1>2. CASE Look
  <2>1. at = "set" /\ ~Stopped /\ ~Ready /\ Looks = 1
    BY <1>2 DEF Look, Stuck, Looks
  <2>2. Len(ahead) >= 1
    BY <1>1 DEF Next1, Peek
  <2> QED
    BY <2>1, <2>2 DEF Ready
<1>3. CASE Set
  BY <1>1, <1>3 DEF Set, Stuck, Leave, Goto, Slot
<1>4. CASE Ready /\ Step /\ ~Set
  <2>1. at = "set"
    BY DEF Stuck
  <2>2. ~Expect /\ ~Name /\ ~Eat
    BY <2>1 DEF Expect, Name, Eat, Expected, NameThen, Optional
  <2> QED
    BY <1>4, <2>1, <2>2
       DEF Step, Top, Recover, Attrs, NextTag, AttrValue, EntityAttr, Tag, Class, SpecAttr,
           With, SpecEnd, Verb, When, Signal, Value
<1> QED
  BY <1>2, <1>3, <1>4 DEF Next

\* The parser goes round without taking a token only before a mark in a set, and
\* then for ever; any other step that takes none brings it nearer to one that
\* does, whatever the text.
THEOREM NoIdleCircleHolds == Spec => NoIdleCircle
<1>1. IInv /\ [Next]_vars => [IF Stuck THEN UNCHANGED <<at, ahead>>
                               ELSE Len(ahead') = Len(ahead) => Rank' < Rank]_vars
  <2> SUFFICES ASSUME IInv, Next, ~Stuck PROVE Descends
    BY StuckStays DEF Descends
  <2>1. CASE Look
    BY <2>1 DEF Look, Descends, IInv, AheadOK
  <2>2. CASE Ready /\ Step
    BY <2>2, ExpectDescends, EatDescends, TopDescends, AttrsDescends, SpecDescends,
       RuleDescends, ValueDescends DEF Step, IInv
  <2> QED
    BY <2>1, <2>2 DEF Next
<1> QED
  BY <1>1, Inductive, PTL DEF Spec, NoIdleCircle
=============================================================================
