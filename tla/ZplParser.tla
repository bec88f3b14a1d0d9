------------------------------ MODULE ZplParser ------------------------------
(***************************************************************************)
(* The cursor of the ZPL parser (zpl/zpl_parser.py): which tokens of a     *)
(* text it takes for what, where a statement ends, and how it goes on      *)
(* after one it cannot read.  A text is any sequence of tokens; the next   *)
(* ones are chosen when the parser first looks at them, so that every text *)
(* of every length is a behaviour.  What is parsed is left out (see        *)
(* ZplCompile), but for where a rule has a condition.                      *)
(*                                                                         *)
(* A token is a mark, a keyword, a word, or a string; the comma and the    *)
(* braces go by their names.  ":" is also the "=" that means the same,     *)
(* "optional" also "multiple", "tags" also the "tag" of a Define.  A       *)
(* number is a string.                                                     *)
(* Words are compared in lower case, but not the name of an attribute:     *)
(* "When" is a `when' with a capital.                                      *)
(***************************************************************************)
EXTENDS Naturals, Sequences, FiniteSets

CONSTANTS
    Word,          \* words that are no keywords
    None

Marks == {".", "comma", ":", "lbrace", "rbrace"}
Starters == {"define", "declare", "allow", "never"}
Separators == {"on", "to", "and", "with", "when", "When"}
Quoted == {"'when'"}           \* strings; a name of an attribute may be quoted
Text == Starters \cup Separators \cup Word \cup
        {"a", "aka", "as", "connect", "optional", "tags"}
Named == Text \cup Quoted      \* what can be a name
Token == Marks \cup Named
End == "end-of-text"

Slots == <<"subject", "accessor", "object", "server">>
Slot == {"subject", "accessor", "object", "server"}
Place == {"tail"} \cup Slot

\* Words are neither keywords nor marks; None is no token and no place.
ASSUME WordAssumption ==
    /\ Word \cap (Marks \cup Starters \cup Separators \cup Quoted \cup Place \cup
                 {"a", "aka", "as", "connect", "optional", "tags", End}) = {}
    /\ None \notin Token \cup Place \cup {"spec", "with", "when-comma",
                                       "attr-separator", "entity-separator"}

VARIABLES
    at,            \* where in the parser
    ahead,         \* the tokens looked at and not yet taken
    slot,          \* the slot of the rule whose spec is read
    tags,          \* what the spec has as tags: nothing, a "list" or a "text"
    key,           \* the attribute whose value is read
    back,          \* where to go on behind the value
    whens,         \* the places of the rule that have a `when'
    turn,          \* the turns of a loop that takes nothing, odd or even: all
                   \* that a step of it changes
    written        \* the conditions written in it, 2 being two or more
                   \* (for the properties)

vars == <<at, ahead, slot, tags, key, back, whens, turn, written>>
rule == <<slot, tags, key, back, whens, written>>

Peek(n) == IF n <= Len(ahead) THEN ahead[n] ELSE End
Next1 == Peek(1)

-----------------------------------------------------------------------------
(* Straight stretches of the grammar.                                       *)

\* expect_word: where, the word, where then.
Expected == {
    <<"never", "allow", "subject">>,  <<"to", "to", "verb">>,
    <<"define-as", "as", "define-article">>, <<"declare-as", "as", "declare-article">>}

\* _consume_name: where, and where then.
NameThen == {
    <<"define", "aka?">>, <<"aka", "define-as">>, <<"parent", "attrs?">>,
    <<"attr-name", "attr-value?">>, <<"tag", "tag-separator">>,
    <<"declare", "declare-as">>, <<"declare-class", "entity-with?">>}

\* eat_word and eat_punct: where, the tokens, where then if it is one of them,
\* and where if not.
Optional == {
    <<"aka?", {"aka"}, "aka", "define-as">>,
    <<"define-article", {"a"}, "parent", "parent">>,
    <<"attr", {"optional"}, "tags?", "tags?">>,
    <<"tags?", {"tags"}, "tag", "attr-article">>,
    <<"attr-article", {"a"}, "attr-name", "attr-name">>,
    <<"attr-separator", {"comma"}, "attr-and", "attr-separator-2">>,
    <<"attr-separator-2", {"and"}, "attr", "statement-end">>,
    <<"attr-and", {"and"}, "attr", "attr">>,
    <<"tag-separator", {"comma"}, "tag-and", "tag-separator-2">>,
    <<"tag-separator-2", {"and"}, "next-tag", "statement-end">>,
    <<"tag-and", {"and"}, "next-tag", "next-tag">>,
    <<"declare-article", {"a"}, "declare-class", "declare-class">>,
    <<"entity-with?", {"with"}, "entity", "statement-end">>,
    <<"entity-separator", {"comma"}, "entity-and", "entity-separator-2">>,
    <<"entity-separator-2", {"and"}, "entity", "statement-end">>,
    <<"entity-and", {"and"}, "entity", "entity">>,
    <<"with?", {"with"}, "with", "spec-end">>,
    <<"connect", {"to"}, "object", "object">>,
    <<"tail", {"comma"}, "when?", "when?">>,
    <<"when-comma", {"comma"}, "signal?", "signal?">>,
    <<"signal?", {"and"}, "signal", "rule-end">>,
    <<"statement-end", {"."}, "top", "top">>,
    <<"rule-end", {"."}, "top", "top">>}

\* How many tokens the parser looks at before it goes on.
Looks ==
    IF at = "with" /\ Next1 \in {"comma", "and"} THEN 3
    ELSE IF \/ at \in {"spec", "attrs?", "next-tag", "with"} /\ Next1 \in Named
            \/ at = "when?" /\ Next1 \in {"when", "When"} THEN 2
    ELSE 1

Ended == ahead # <<>> /\ ahead[Len(ahead)] = End
Ready == Len(ahead) >= 1 /\ (Len(ahead) >= Looks \/ Ended)
Stopped == at \in {"done", "raised"}

\* The text has one more token, or no more.
Look == /\ ~Stopped /\ ~Ready
        /\ \E t \in Token \cup {End} : ahead' = Append(ahead, t)
        /\ UNCHANGED <<at, rule, turn>>

Take(n) == ahead' = SubSeq(ahead, n + 1, Len(ahead))
Leave == UNCHANGED ahead

\* The slots of a rule begin and end here; a statement begins with none.
Fresh == /\ slot' = None /\ tags' = "none" /\ key' = None /\ back' = None
         /\ whens' = {} /\ written' = 0
NewSlot(s) == /\ at' = "spec" /\ slot' = s
              /\ tags' = "none" /\ UNCHANGED <<key, back, whens, written>>

Goto(place) ==
    \/ place \in Slot /\ NewSlot(place)
    \/ place = "top" /\ at' = "top" /\ Fresh
    \/ place \notin Slot \cup {"top"} /\ at' = place /\ UNCHANGED rule

\* Mutant: what was read of the statement is kept.
ErrorKeeps == at' = "recover" /\ UNCHANGED rule /\ Leave

\* ValueError, caught in _parse_impl.
Error == at' = "recover" /\ Fresh /\ Leave

Expect == \E e \in Expected :
    /\ at = e[1]
    /\ IF Next1 = e[2] THEN Take(1) /\ Goto(e[3]) ELSE Error

Name == \E n \in NameThen :
    /\ at = n[1]
    /\ IF Next1 \in Named THEN Take(1) /\ Goto(n[2]) ELSE Error

Eat == \E o \in Optional :
    /\ at = o[1]
    /\ IF Next1 \in o[2] THEN Take(1) /\ Goto(o[3]) ELSE Leave /\ Goto(o[4])

-----------------------------------------------------------------------------
(* The statements.                                                          *)

\* Mutant: a mark between statements is not skipped.
TopStays ==
    /\ at = "top"
    /\ \/ Next1 = End /\ Leave /\ Goto("done")
       \/ Next1 \in Marks \cup Quoted /\ Leave /\ Goto("top")
       \/ Next1 \in {"define", "declare", "never"} /\ Take(1) /\ Goto(Next1)
       \/ Next1 = "allow" /\ Take(1) /\ Goto("subject")
       \/ Next1 \in Text \ Starters /\ Error

\* _parse_impl.
Top ==
    /\ at = "top"
    /\ \/ Next1 = End /\ Leave /\ Goto("done")
       \/ Next1 \in Marks \cup Quoted /\ Take(1) /\ Goto("top")
       \/ Next1 \in {"define", "declare", "never"} /\ Take(1) /\ Goto(Next1)
       \/ Next1 = "allow" /\ Take(1) /\ Goto("subject")
       \/ Next1 \in Text \ Starters /\ Error

\* Mutant: only a period is taken, and the parser tries again at any token.
RecoverHere ==
    /\ at = "recover"
    /\ \/ Next1 # "." /\ Leave /\ Goto("top")
       \/ Next1 = "." /\ Take(1) /\ Goto("top")

\* To behind the next period.
Recover ==
    /\ at = "recover"
    /\ \/ Next1 = End /\ Leave /\ Goto("top")
       \/ Next1 = "." /\ Take(1) /\ Goto("top")
       \/ Next1 \in Token \ {"."} /\ Take(1) /\ Goto("recover")

\* _next_looks_like_attr.
LooksLikeAttr == /\ Next1 \in Text
                 /\ Next1 \in {"optional", "tags"} \/ Peek(2) = ":"

\* _parse_define: the attributes, if there are any.
Attrs == /\ at = "attrs?"
         /\ IF Next1 = "with" THEN Take(1) /\ Goto("attr")
            ELSE Leave /\ Goto(IF LooksLikeAttr THEN "attr" ELSE "statement-end")

\* Behind a separator in a list of tags: a tag, or the next attribute.
NextTag == /\ at = "next-tag"
           /\ Leave /\ Goto(IF LooksLikeAttr THEN "attr" ELSE "tag")

\* The value of an attribute, or none.
ValueOf(name, then) ==
    at' = "value" /\ key' = name /\ back' = then /\ UNCHANGED <<slot, tags, whens>>

AttrValue ==
    /\ at = "attr-value?"
    /\ IF Next1 = ":" THEN Take(1) /\ ValueOf(None, "attr-separator") /\ UNCHANGED written
       ELSE Leave /\ Goto("attr-separator")

\* _parse_entity_attrs.
EntityAttr ==
    \/ /\ at = "entity"
       /\ IF Next1 \in Named \ Starters THEN Take(1) /\ Goto("entity-value?")
          ELSE Leave /\ Goto("statement-end")
    \/ /\ at = "entity-value?"
       /\ IF Next1 = ":" THEN Take(1) /\ ValueOf(None, "entity-separator") /\ UNCHANGED written
          ELSE Leave /\ Goto("entity-separator")

-----------------------------------------------------------------------------
(* The specs of a rule.                                                     *)

Attributed == Next1 \in Named /\ Peek(2) = ":"

\* A name and its colon.
KeyOf(name) ==
    /\ ValueOf(name, at)
    /\ written' = IF name \in {"when", "'when'"} /\ written < 2 THEN written + 1 ELSE written

\* _is_terminator_position, or a keyword of its own.
EndsSpec == \/ Next1 \in Separators \cup Starters
            \/ Peek(2) \in Separators \cup Starters \cup {".", End}

\* A word before the class is a tag; a text of tags takes none (AttributeError,
\* which nobody catches).
Tag == /\ at = "spec" /\ Next1 \in Named /\ ~Attributed /\ ~EndsSpec
       /\ \/ Next1 = "a" /\ Take(1) /\ Goto("spec")
          \/ /\ Next1 # "a" /\ tags = "text"
             /\ Leave /\ Goto("raised")
          \/ /\ Next1 # "a" /\ tags # "text"
             /\ Take(1) /\ at' = "spec" /\ tags' = "list"
             /\ UNCHANGED <<slot, key, back, whens, written>>

\* The class, whatever word it is.
Class == /\ at = "spec" /\ ~Attributed
         /\ \/ /\ Next1 \in Named /\ EndsSpec
               /\ Take(1) /\ at' = "with?" /\ tags' = "none"
               /\ UNCHANGED <<slot, key, back, whens, written>>
            \/ Next1 \notin Named /\ Error

SpecAttr == at = "spec" /\ Attributed /\ Take(2) /\ KeyOf(Next1)

\* A separator is taken only if an attribute follows.
With == /\ at = "with"
        /\ LET another == /\ Next1 \in {"comma", "and"}
                          /\ Peek(2) \in Named /\ Peek(3) = ":"
           IN \/ another /\ Take(3) /\ KeyOf(Peek(2))
              \/ Attributed /\ Next1 # "and" /\ Take(2) /\ KeyOf(Next1)
              \/ /\ ~another /\ ~(Attributed /\ Next1 # "and")
                 /\ Leave /\ Goto("spec-end")

\* _parse_permission, between the specs.
SpecEnd ==
    /\ at = "spec-end"
    /\ \/ slot \in {"subject", "object"} /\ Next1 = "on"
          /\ Take(1) /\ Goto(IF slot = "subject" THEN "accessor" ELSE "server")
       \/ slot = "subject" /\ Next1 # "on" /\ Leave /\ Goto("to")
       \/ slot = "accessor" /\ Leave /\ Goto("to")
       \/ slot = "object" /\ Next1 # "on" /\ Leave /\ Goto("tail")
       \/ slot = "server" /\ Leave /\ Goto("tail")

Verb == /\ at = "verb"
        /\ IF Next1 \in Named
           THEN Take(1) /\ Goto(IF Next1 = "connect" THEN "connect" ELSE "object")
           ELSE Error

\* `when' behind the object, with a colon.
When == /\ at = "when?"
        /\ IF Next1 \in {"when", "When"} /\ Peek(2) = ":"
           THEN /\ Take(2) /\ ValueOf("tail", "when-comma")
                /\ written' = IF written < 2 THEN written + 1 ELSE written
           ELSE Leave /\ Goto("signal?")

\* Mutant: the signal clause runs to the end of the text.
SignalToEnd == /\ at = "signal"
               /\ IF Next1 # End THEN Take(1) /\ Goto("signal")
                  ELSE Leave /\ Goto("rule-end")

\* A signal clause is read over, up to the period.
Signal == /\ at = "signal"
          /\ IF Next1 \notin {".", End} THEN Take(1) /\ Goto("signal")
             ELSE Leave /\ Goto("rule-end")

\* Mutant: only the subject and the object are searched for a `when'.
HoistedFromTwo ==
    CASE "object" \in whens -> "object"
      [] "object" \notin whens /\ "subject" \in whens -> "subject"
      [] {"object", "subject"} \cap whens = {} /\ "tail" \in whens -> "tail"
      [] OTHER -> None

\* The condition of the rule: that of the last slot that has one, or the one
\* behind the object.
Hoisted ==
    LET having == {i \in DOMAIN Slots : Slots[i] \in whens} IN
    IF having # {} THEN Slots[CHOOSE i \in having : \A j \in having : j <= i]
    ELSE IF "tail" \in whens THEN "tail" ELSE None

-----------------------------------------------------------------------------
(* Values.                                                                  *)

Where == IF key = "tail" THEN "tail" ELSE slot

\* The attribute has its value; kind is "list" or "text".
Given(kind) ==
    /\ at' = back
    /\ tags' = IF back = "spec" /\ key = "tags" THEN kind ELSE tags
    /\ whens' = IF key \in {"when", "'when'", "tail"} THEN whens \cup {Where} ELSE whens
    /\ key' = None /\ back' = None /\ UNCHANGED <<slot, written>>

\* _parse_attr_value.  A keyword is a value if no space is before it.
Value == /\ at = "value"
         /\ \/ Next1 = "lbrace" /\ Take(1) /\ Goto("set")
            \/ Next1 \in (Marks \ {"lbrace"}) \cup {End} /\ Leave /\ Given("text")
            \/ Next1 \in Named /\ Take(1) /\ Given("text")
            \/ Next1 \in Separators \cup Starters /\ Leave /\ Given("text")

\* The values of a set.  Any other mark is neither taken nor refused: the loop
\* comes to it again in its next turn.
Set == /\ at = "set"
       /\ \/ Next1 = End /\ Error /\ UNCHANGED turn
          \/ Next1 = "rbrace" /\ Take(1) /\ Given("list") /\ UNCHANGED turn
          \/ Next1 \in Named \cup {"comma"} /\ Take(1) /\ Goto("set") /\ UNCHANGED turn
          \/ Next1 \in {".", ":", "lbrace"} /\ Leave /\ Goto("set") /\ turn' = ~turn

Init == /\ at = "top" /\ ahead = <<>>
        /\ slot = None /\ tags = "none" /\ key = None /\ back = None
        /\ whens = {} /\ turn = FALSE /\ written = 0

Step == \/ /\ \/ Expect \/ Name \/ Eat
              \/ Top \/ Recover \/ Attrs \/ NextTag \/ AttrValue \/ EntityAttr
              \/ Tag \/ Class \/ SpecAttr \/ With \/ SpecEnd \/ Verb \/ When \/ Signal
              \/ Value
           /\ UNCHANGED turn
        \/ Set

Next == Look \/ (Ready /\ Step)

Spec == Init /\ [][Next]_vars /\ WF_vars(Next)

-----------------------------------------------------------------------------
(* Properties.                                                              *)

Taken == Len(ahead') < Len(ahead)
TakenTokens == {ahead[i] : i \in 1..Len(ahead) - Len(ahead')}

\* The parser keeps its place and its account of the rule.
ParserTypeOK ==
    /\ ahead \in Seq(Token \cup {End}) /\ Len(ahead) <= 3
    /\ \A i \in 1..Len(ahead) - 1 : ahead[i] # End
    /\ slot \in Place \cup {None} /\ tags \in {"none", "list", "text"}
    /\ at \in {"value", "set"} <=> back # None
    /\ at \in {"top", "recover"} => slot = None /\ written = 0
    /\ whens \subseteq Place /\ written \in 0..2 /\ turn \in BOOLEAN

\* A period that is read ends the statement, whatever it stands in: no error,
\* open clause or missing word of a statement reaches past the next period.
PeriodResyncs == []["." \in TakenTokens => at' = "top"]_vars

\* No condition gets lost: a rule with a `when' written to any of its slots or
\* behind its object has a condition, the one written if there is but one, and
\* a rule without has none (_parse_permission 489-495).
ConditionKept ==
    at = "rule-end" =>
        /\ written = 0 <=> Hoisted = None
        /\ written = 1 => whens = {Hoisted}

\* How far it is at most to a place where the parser takes a token or refuses it.
Rank ==
    CASE at \in {"done", "raised"} -> 0
      [] at = "top" -> IF Next1 \in Text \ Starters THEN 3 ELSE 1
      [] at = "recover" -> 2
      [] at \in {"aka?", "define-article", "attr-article", "attr-separator-2",
                "tag-separator-2", "declare-article", "entity-with?", "entity",
                "entity-separator-2", "connect", "signal", "signal?"} -> 5
      [] at \in {"tags?", "attr-separator", "tag-separator", "entity-separator",
                "entity-and", "when?", "when-comma"} -> 6
      [] at \in {"attr", "attr-value?", "entity-value?", "tail"} -> 7
      [] at \in {"attrs?", "attr-and", "next-tag", "spec-end"} -> 8
      [] at \in {"tag-and", "with?", "with"} -> 9
      [] at = "value" -> 10
      [] OTHER -> 4

\* Before a mark in a set that is neither a comma nor the closing brace.
Stuck == at = "set" /\ Next1 \in {".", ":", "lbrace"}

\* The grammar and its error recovery have one circle in which no token is taken,
\* the loop of a set before a mark, and none leads out of that one: any other
\* step that neither looks at a token nor takes one goes down.
NoIdleCircle ==
    [][IF Stuck THEN UNCHANGED <<at, ahead>>
       ELSE Len(ahead') = Len(ahead) => Rank' < Rank]_vars

\* The parser takes token after token until the text ends, but for a set with
\* a mark in it.
MovesOn == <>[](Stopped \/ Stuck) \/ []<><<Taken>>_vars
=============================================================================
